---- MODULE Spec2Model ----
(***************************************************************************)
(* Psychological-test flow of the Telegram bot: choosing a test, answering *)
(* its questions one by one, scoring the answers, looking up the           *)
(* interpretation and saving the result.                                   *)
(*                                                                         *)
(* Two revisions of the flow live in the repository and a deployment runs  *)
(* one of them:                                                            *)
(*   "updated"  updated_handlers.py (sum and subscale tests, ALL_TESTS)    *)
(*   "legacy"   handlers.py wired by main.py (TESTS_INFO, threshold list)  *)
(* context.user_data of python-telegram-bot is a per-user dict; it is      *)
(* modelled as a function whose domain is the set of keys present.         *)
(* Question numbers and answer numbers are 0-based as in the code;         *)
(* sequences are 1-based, hence the "+ 1" where a list is indexed.         *)
(***************************************************************************)
EXTENDS Integers, Sequences, FiniteSets

\* ------------------------------------------------------------------ bounds
\* saves one user may reach (a new attempt is not offered beyond it)
MaxSaves == 1
\* saves the user who takes tests one after another may reach
MaxRepeats == 2
\* the largest limit a history request carries
MaxLimit == 2
\* the seconds the clock of the rate limiter runs to
MaxTime == 4
\* limit_seconds of the rate-limited handler
limit_seconds == 2
\* len(FINAL_DAILY_TIPS)
NumTips == 3
\* the days the calendar of the tips bot runs to
MaxDays == 5
\* the anonymous questions that are asked
MaxQuestions == 2
\* answers one user may hand in: those of the saved attempts and of the one in
\* progress (an attempt that crashed keeps accepting presses)
MaxAnswers == 3
\* answers two users hand in together while their sessions interleave
MaxInterleaved == 2

Users == {1, 2}

\* ------------------------------------------------- conversation constants
END == -1
CHOOSING_TEST == 1
CONFIRMING_TEST == 2
TAKING_TEST == 3
SHOWING_RESULT == 4

\* ------------------------------------------------------------ python dicts
EmptyDict == [k \in {} |-> 0]

Has(d, k) == k \in DOMAIN d

Get(d, k, default) == IF k \in DOMAIN d THEN d[k] ELSE default

Put(d, k, v) == [x \in (DOMAIN d) \cup {k} |-> IF x = k THEN v ELSE d[x]]

\* the value of a missing key / of a failed lookup
None == "None"

\* ------------------------------------------------------------ test catalog
\* data/tests.py and data/new_tests.py (TESTS, NEW_TESTS) in the shape the
\* handlers read: name, calculation_type, subscales, questions (answers are
\* the option labels, scores the per-option scores, subscale the tag) and
\* interpretations (a list of ranges, or one list per subscale).
Q(scores, subscale) ==
    [answers |-> [i \in 1..Len(scores) |-> i - 1], scores |-> scores, subscale |-> subscale]

R(lo, hi, text) == [min_score |-> lo, max_score |-> hi, text |-> text]

ALL_TESTS ==
    [ sum2 |-> [ name |-> "Sum2", calculation_type |-> "sum", subscales |-> <<>>,
                 questions |-> << Q(<<0, 1>>, None), Q(<<0, 2>>, None) >>,
                 interpretations |-> << R(0, 1, "low"), R(2, 3, "high") >> ],
      sub3 |-> [ name |-> "Sub3", calculation_type |-> "subscales", subscales |-> <<"A", "B">>,
                 questions |-> << Q(<<1, 3>>, "A"), Q(<<1, 0>>, "B"), Q(<<2, 0>>, "A") >>,
                 interpretations |-> [ A |-> << R(0, 2, "A-low"), R(3, 5, "A-high") >>,
                                       B |-> << R(0, 0, "B-low"), R(1, 1, "B-high") >> ] ],
      gap1 |-> [ name |-> "Gap1", calculation_type |-> "sum", subscales |-> <<>>,
                 questions |-> << Q(<<0, 1, 2>>, None) >>,
                 interpretations |-> << R(0, 0, "low"), R(2, 2, "high") >> ] ]

TestKeys == DOMAIN ALL_TESTS

NumQuestions(test_data) == Len(test_data.questions)

\* data/tests.py TESTS_INFO of the legacy revision: each question maps option
\* values (the text after "answer_") to labels; interpretations is a list of
\* (threshold, text) pairs, highest threshold first.
TESTS_INFO ==
    [ gad7 |-> [ name |-> "GAD-7",
                 questions |-> << [options |-> {"0", "1", "2"}], [options |-> {"0", "1"}] >>,
                 interpretations |-> << <<2, "high">>, <<1, "mid">>, <<0, "low">> >> ],
      mdq  |-> [ name |-> "MDQ",
                 questions |-> << [options |-> {"yes", "no"}] >>,
                 interpretations |-> << <<1, "positive">>, <<0, "negative">> >> ] ]

LegacyTypes == DOMAIN TESTS_INFO

\* query.data.split('_')[1] of test_callback
TestTypeOf ==
    [test_gad7 |-> "gad7", test_mdq |-> "mdq", test_pcl5 |-> "pcl5", test_cancel |-> "cancel"]

\* query.data.split('_')[1] of the legacy process_test_answer
AnswerValueOf ==
    [answer_0 |-> "0", answer_1 |-> "1", answer_2 |-> "2", answer_yes |-> "yes", answer_no |-> "no"]

\* int(answer_value): digits convert, anything else raises ValueError
IsInt(v) == v \in {"0", "1", "2"}

IntOf(v) == CASE v = "0" -> 0 [] v = "1" -> 1 [] v = "2" -> 2

\* --------------------------------------------------------------- callbacks
\* query.data.replace("test_", "") of select_test; "test_nosuch" is a button
\* whose test has left the catalog
TestKeyOf ==
    [test_sum2 |-> "sum2", test_sub3 |-> "sub3", test_gap1 |-> "gap1", test_nosuch |-> "nosuch"]

\* int(query.data.replace("answer_", "")) of process_test_answer: the buttons
\* "answer_<i>" the bot renders, i ranging over the options of the longest
\* question; keyboards of earlier messages stay pressable
AnswerNumOf == [answer_0 |-> 0, answer_1 |-> 1, answer_2 |-> 2]

\* ------------------------------------------------------------------- state
VARIABLES
    revision,    \* which revision of the bot is deployed
    db_type,     \* DATABASE["type"]
    conv,        \* per user: state of the test ConversationHandler
    user_data,   \* per user: context.user_data
    outcome,     \* per user: how the last handler call ended
    shown,       \* per user: the result view the last handler call displayed
    keyboard,    \* per user: answer buttons on the message the flow edits
    stale,       \* per user: answer buttons left on earlier messages
    save_log,    \* calls of db.save_test_result, in order, with their effect
    history,     \* per user: what the last db.get_user_test_results call gave
    now,         \* time.time(), in seconds
    last_used,   \* the dict last_used of one rate_limit decorator
    invocations, \* per user: the times the wrapped handler was invoked
    rate_reply,  \* per user: how the last call of the wrapper ended
    today,       \* date.today(), counted in days
    tips_data,   \* context.user_data of one user of the tips bot
    delivered,   \* the tips that user was sent, in order, with their dates
    tip_reply,   \* what get_daily_tip last replied to that user
    anonymous_questions, \* the anonymous questions table: row i has question_id i
    admin_conv,  \* per user: state of the admin_reply_handler conversation
    admin_data,  \* per user: context.user_data, of which question_id
    buttons,     \* the user ids on the reply buttons the tips bot sent
    reply_conv,  \* per user: state of admin_reply_conversation_handler
    reply_data,  \* per user: user_data of the tips bot
    sent,        \* the administrator's replies that were delivered
    reply_events, \* what the last save_admin_reply did, in order
    ask_conv,    \* per user: state of the ask_question_handler conversation
    ask_reply,   \* who sent the last /ask and how ask_question_command ended
    last_pressed, \* per user: the user id on the reply button pressed last
    connection,  \* self.connection of the Database object: None, open or closed
    opened,      \* the connections that were opened and not closed
    stale_query, \* a query was run on a connection that had been closed
    users_table, \* table users: user_id to username
    user_settings, \* table user_settings: the user ids that have a row
    db_value     \* the last Database operation, whether a step of it failed
                 \* and what it returned

\* the state of the test conversation and of its store
flow == <<revision, db_type, conv, user_data, outcome, shown, keyboard, stale, save_log>>

\* the state the test conversation never touches
\* the state of one rate-limited handler
rate == <<now, last_used, invocations, rate_reply>>

\* the state of the daily tips of one user
tips == <<today, tips_data, delivered, tip_reply>>

\* the state of the replies to anonymous questions, of both bots
admin == <<anonymous_questions, admin_conv, admin_data, buttons, reply_conv, reply_data, sent,
           reply_events, ask_conv, ask_reply, last_pressed>>

\* the Database object and the tables of the users
db_object == <<connection, opened, stale_query, users_table, user_settings, db_value>>

aside == <<history, rate, tips, admin, db_object>>

vars == <<flow, aside>>

\* what a handler call yields: the user's dict, the conversation state, how it
\* ended, the rows handed to the store and the result view displayed (each a
\* sequence of at most one element)
Ret(ud, state, out, saves, view) ==
    [ud |-> ud, state |-> state, outcome |-> out, saves |-> saves, view |-> view]

\* an exception leaves the handler: python-telegram-bot keeps the conversation
\* in the state it was in; writes to user_data made before the raise stay
Raise(ud, state, exc) == Ret(ud, state, exc, <<>>, <<>>)

\* ---------------------------------------------------------------- database
\* Database.save_test_result: connect; sqlite inserts through execute(), which
\* commits; postgresql inserts through query(), which does not commit, and
\* the finally-clause closes the connection, discarding the open transaction.
\* Every exception is caught and turned into the return value None.
save_test_result(user_id, test_type, score, answers, interpretation, dbt, reachable) ==
    [ user_id |-> user_id, test_type |-> test_type, score |-> score,
      answers |-> answers, interpretation |-> interpretation,
      returned |-> IF reachable THEN "result_id" ELSE None,
      committed |-> reachable /\ dbt = "sqlite" ]

\* the rows of table test_results
test_results == SelectSeq(save_log, LAMBDA r : r.committed)

\* Database.get_user_test_results.  In the branch for a given test_type the
\* line "if self.db_type == 'postgresql':" is missing: query_str is assigned
\* at line 772 and an "else:" follows at line 779 that no "if" of its
\* indentation opens.  Python rejects the file (SyntaxError, line 779), so
\* there is no function to call: every use of it ends in that error, for any
\* user, test type and limit.
get_user_test_results(rows, user_id, test_type, limit) ==
    [exc |-> "SyntaxError", rows |-> <<>>]

\* ----------------------------------------------------------------- scoring
\* a plausible slip: the option's position is taken for its score
OptionScoreIsIndex(question, answer_idx) == answer_idx

\* question["scores"][answer_idx]
OptionScore(question, answer_idx) == question.scores[answer_idx + 1]

\* for i, answer_idx in enumerate(answers): score += questions[i]["scores"][answer_idx]
RECURSIVE SumLoop(_, _, _, _)
SumLoop(questions, answers, i, score) ==
    IF i > Len(answers) THEN [err |-> FALSE, score |-> score]
    ELSE IF i > Len(questions) THEN [err |-> TRUE, score |-> score]
    ELSE IF answers[i] + 1 > Len(questions[i].scores) THEN [err |-> TRUE, score |-> score]
    ELSE SumLoop(questions, answers, i + 1, score + OptionScore(questions[i], answers[i]))

\* a plausible slip: the subscale filter is dropped
SubscaleQuestionsUnfiltered(test_data, subscale) == test_data.questions

\* [q for q in test_data["questions"] if q.get("subscale") == subscale]
SubscaleQuestions(test_data, subscale) ==
    SelectSeq(test_data.questions, LAMBDA q : q.subscale = subscale)

\* the inner loop over one subscale's bucket of answers
SubscaleLoop(test_data, subscale_answers, subscale) ==
    SumLoop(SubscaleQuestions(test_data, subscale), Get(subscale_answers, subscale, <<>>), 1, 0)

\* a plausible slip: the upper end of a range is excluded
InRangeExclusive(result, score) == score >= result.min_score /\ score < result.max_score

\* score >= result["min_score"] and score <= result["max_score"]
InRange(result, score) == score >= result.min_score /\ score <= result.max_score

\* for result in table: if in range: text; break  (the text stays "" otherwise)
RECURSIVE Interpret(_, _, _)
Interpret(table, score, i) ==
    IF i > Len(table) THEN ""
    ELSE IF InRange(table[i], score) THEN table[i].text
    ELSE Interpret(table, score, i + 1)

RECURSIVE SumValues(_, _, _)
SumValues(d, keys, i) ==
    IF i > Len(keys) THEN 0 ELSE d[keys[i]] + SumValues(d, keys, i + 1)

\* str(interpretations): the dict printed key by key in insertion order
StrOfDict(d, keys) == [i \in 1..Len(keys) |-> <<keys[i], d[keys[i]]>>]

SeqRange(s) == {s[i] : i \in 1..Len(s)}

\* a plausible slip: the total starts from the score the session still holds
calculate_test_result_accumulates(ud, state, user_id, dbt, reachable) ==
    LET test_key == Get(ud, "selected_test", None)
        answers == Get(ud, "answers", <<>>)
    IN  IF test_key \notin TestKeys \/ answers = <<>>
        THEN Ret(ud, END, "error_message", <<>>, <<>>)
        ELSE LET test_data == ALL_TESTS[test_key] IN
             IF test_data.calculation_type = "subscales"
             THEN LET subscale_answers == Get(ud, "subscale_answers", EmptyDict)
                      names == SeqRange(test_data.subscales)
                      loops == [s \in names |-> SubscaleLoop(test_data, subscale_answers, s)]
                      subscale_scores == [s \in names |-> loops[s].score]
                      interpretations ==
                          [s \in names |->
                              Interpret(Get(test_data.interpretations, s, <<>>), subscale_scores[s], 1)]
                      ud2 == Put(Put(ud, "subscale_scores", subscale_scores),
                                 "interpretations", interpretations)
                  IN  IF \E s \in names : loops[s].err
                      THEN Raise(ud, state, "IndexError")
                      ELSE Ret(ud2, SHOWING_RESULT, "ok",
                               << save_test_result(user_id, test_data.name,
                                      SumValues(subscale_scores, test_data.subscales, 1),
                                      answers,
                                      StrOfDict(interpretations, test_data.subscales),
                                      dbt, reachable) >>,
                               <<>>)
             ELSE LET loop == SumLoop(test_data.questions, answers, 1, Get(ud, "score", 0))
                      score == loop.score
                      interpretation == Interpret(test_data.interpretations, score, 1)
                      ud2 == Put(Put(ud, "score", score), "interpretation", interpretation)
                  IN  IF loop.err
                      THEN Raise(ud, state, "IndexError")
                      ELSE Ret(ud2, SHOWING_RESULT, "ok",
                               << save_test_result(user_id, test_data.name, score, answers,
                                      interpretation, dbt, reachable) >>,
                               <<>>)

calculate_test_result(ud, state, user_id, dbt, reachable) ==
    LET test_key == Get(ud, "selected_test", None)
        answers == Get(ud, "answers", <<>>)
    IN  IF test_key \notin TestKeys \/ answers = <<>>
        THEN Ret(ud, END, "error_message", <<>>, <<>>)
        ELSE LET test_data == ALL_TESTS[test_key] IN
             IF test_data.calculation_type = "subscales"
             THEN LET subscale_answers == Get(ud, "subscale_answers", EmptyDict)
                      names == SeqRange(test_data.subscales)
                      loops == [s \in names |-> SubscaleLoop(test_data, subscale_answers, s)]
                      subscale_scores == [s \in names |-> loops[s].score]
                      interpretations ==
                          [s \in names |->
                              Interpret(Get(test_data.interpretations, s, <<>>), subscale_scores[s], 1)]
                      ud2 == Put(Put(ud, "subscale_scores", subscale_scores),
                                 "interpretations", interpretations)
                  IN  IF \E s \in names : loops[s].err
                      THEN Raise(ud, state, "IndexError")
                      ELSE Ret(ud2, SHOWING_RESULT, "ok",
                               << save_test_result(user_id, test_data.name,
                                      SumValues(subscale_scores, test_data.subscales, 1),
                                      answers,
                                      StrOfDict(interpretations, test_data.subscales),
                                      dbt, reachable) >>,
                               <<>>)
             ELSE LET loop == SumLoop(test_data.questions, answers, 1, 0)
                      score == loop.score
                      interpretation == Interpret(test_data.interpretations, score, 1)
                      ud2 == Put(Put(ud, "score", score), "interpretation", interpretation)
                  IN  IF loop.err
                      THEN Raise(ud, state, "IndexError")
                      ELSE Ret(ud2, SHOWING_RESULT, "ok",
                               << save_test_result(user_id, test_data.name, score, answers,
                                      interpretation, dbt, reachable) >>,
                               <<>>)

\* a plausible slip: the result is computed one question early
AllAskedEarly(current_question, test_data) == current_question + 1 >= NumQuestions(test_data)

\* current_question >= len(test_data["questions"])
AllAsked(current_question, test_data) == current_question >= NumQuestions(test_data)

\* a plausible slip: past the last question an error is reported, as the
\* legacy show_test_question does, instead of handing over to the calculation
show_test_question_error_at_end(ud, state, user_id, dbt, reachable) ==
    LET test_key == Get(ud, "selected_test", None)
        current_question == Get(ud, "current_question", 0)
    IN  IF test_key \notin TestKeys \/ AllAsked(current_question, ALL_TESTS[test_key])
        THEN Ret(ud, END, "error_message", <<>>, <<>>)
        ELSE Ret(ud, TAKING_TEST, "ok", <<>>, <<>>)

show_test_question(ud, state, user_id, dbt, reachable) ==
    LET test_key == Get(ud, "selected_test", None)
        current_question == Get(ud, "current_question", 0)
    IN  IF test_key \notin TestKeys
        THEN Ret(ud, END, "error_message", <<>>, <<>>)
        ELSE IF AllAsked(current_question, ALL_TESTS[test_key])
        THEN calculate_test_result(ud, state, user_id, dbt, reachable)
        ELSE Ret(ud, TAKING_TEST, "ok", <<>>, <<>>)

\* ---------------------------------------------------- handlers (updated)
\* a plausible slip: the answers of the previous attempt are kept
FreshSessionKeepsAnswers(ud, test_key) ==
    Put(Put(Put(ud, "selected_test", test_key), "current_question", 0),
        "answers", Get(ud, "answers", <<>>))

\* selected_test = test_key; current_question = 0; answers = []
FreshSession(ud, test_key) ==
    Put(Put(Put(ud, "selected_test", test_key), "current_question", 0), "answers", <<>>)

\* a plausible slip: buckets left by an earlier attempt are kept
select_test_keeps_buckets(ud, state, data) ==
    IF data = "test_back"
    THEN \* test_command(update, context): update.message is None for a callback
         Raise(ud, state, "AttributeError")
    ELSE LET test_key == TestKeyOf[data] IN
         IF test_key \notin TestKeys
         THEN Ret(ud, END, "error_message", <<>>, <<>>)
         ELSE LET test_data == ALL_TESTS[test_key]
                  ud1 == FreshSession(ud, test_key)
                  ud2 == IF test_data.calculation_type = "subscales" /\ ~Has(ud1, "subscale_answers")
                         THEN Put(ud1, "subscale_answers",
                                  [s \in SeqRange(test_data.subscales) |-> <<>>])
                         ELSE ud1
              IN  Ret(ud2, CONFIRMING_TEST, "ok", <<>>, <<>>)

select_test(ud, state, data) ==
    IF data = "test_back"
    THEN \* test_command(update, context): update.message is None for a callback
         Raise(ud, state, "AttributeError")
    ELSE LET test_key == TestKeyOf[data] IN
         IF test_key \notin TestKeys
         THEN Ret(ud, END, "error_message", <<>>, <<>>)
         ELSE LET test_data == ALL_TESTS[test_key]
                  ud1 == FreshSession(ud, test_key)
                  ud2 == IF test_data.calculation_type = "subscales"
                         THEN Put(ud1, "subscale_answers",
                                  [s \in SeqRange(test_data.subscales) |-> <<>>])
                         ELSE ud1
              IN  Ret(ud2, CONFIRMING_TEST, "ok", <<>>, <<>>)

\* a plausible slip: the answer is appended to the bucket of every subscale
StoreAnswerEveryBucket(ud, test_data, current_question, answer_num) ==
    IF test_data.calculation_type = "subscales"
    THEN IF current_question >= NumQuestions(test_data)
         THEN [ud |-> ud, exc |-> "IndexError"]
         ELSE LET subscale == test_data.questions[current_question + 1].subscale
                  buckets == Get(ud, "subscale_answers", EmptyDict)
              IN  IF subscale # None /\ ~(Has(ud, "subscale_answers") /\ Has(buckets, subscale))
                  THEN [ud |-> ud, exc |-> "KeyError"]
                  ELSE LET ud1 == IF subscale # None
                                  THEN Put(ud, "subscale_answers",
                                           [s \in DOMAIN buckets |->
                                               Append(buckets[s], answer_num)])
                                  ELSE ud
                       IN  IF ~Has(ud1, "answers")
                           THEN [ud |-> ud1, exc |-> "KeyError"]
                           ELSE [ud |-> Put(ud1, "answers", Append(ud1["answers"], answer_num)),
                                 exc |-> None]
    ELSE IF ~Has(ud, "answers")
         THEN [ud |-> ud, exc |-> "KeyError"]
         ELSE [ud |-> Put(ud, "answers", Append(ud["answers"], answer_num)), exc |-> None]

\* lines 301-315: the answer goes to its subscale's bucket and to the list
StoreAnswer(ud, test_data, current_question, answer_num) ==
    IF test_data.calculation_type = "subscales"
    THEN IF current_question >= NumQuestions(test_data)
         THEN [ud |-> ud, exc |-> "IndexError"]
         ELSE LET subscale == test_data.questions[current_question + 1].subscale
                  buckets == Get(ud, "subscale_answers", EmptyDict)
              IN  IF subscale # None /\ ~(Has(ud, "subscale_answers") /\ Has(buckets, subscale))
                  THEN [ud |-> ud, exc |-> "KeyError"]
                  ELSE LET ud1 == IF subscale # None
                                  THEN Put(ud, "subscale_answers",
                                           Put(buckets, subscale,
                                               Append(buckets[subscale], answer_num)))
                                  ELSE ud
                       IN  IF ~Has(ud1, "answers")
                           THEN [ud |-> ud1, exc |-> "KeyError"]
                           ELSE [ud |-> Put(ud1, "answers", Append(ud1["answers"], answer_num)),
                                 exc |-> None]
    ELSE IF ~Has(ud, "answers")
         THEN [ud |-> ud, exc |-> "KeyError"]
         ELSE [ud |-> Put(ud, "answers", Append(ud["answers"], answer_num)), exc |-> None]

\* a plausible slip: the index is advanced past the next question
AdvanceTwice(ud) == Put(ud, "current_question", ud["current_question"] + 2)

\* context.user_data["current_question"] += 1
Advance(ud) == Put(ud, "current_question", ud["current_question"] + 1)

process_test_answer(ud, state, data, user_id, dbt, reachable) ==
    IF data = "test_cancel"
    THEN Ret(ud, END, "cancelled", <<>>, <<>>)
    ELSE IF data = "test_start"
    THEN show_test_question(ud, state, user_id, dbt, reachable)
    ELSE LET answer_num == AnswerNumOf[data]
             test_key == Get(ud, "selected_test", None)
             current_question == Get(ud, "current_question", 0)
         IN  IF test_key \notin TestKeys
             THEN \* test_data is None: test_data.get raises
                  Raise(ud, state, "AttributeError")
             ELSE LET stored == StoreAnswer(ud, ALL_TESTS[test_key], current_question, answer_num)
                  IN  IF stored.exc # None
                      THEN Raise(stored.ud, state, stored.exc)
                      ELSE IF ~Has(stored.ud, "current_question")
                      THEN Raise(stored.ud, state, "KeyError")
                      ELSE show_test_question(Advance(stored.ud), state, user_id, dbt, reachable)

show_test_result(ud, state) ==
    LET test_key == Get(ud, "selected_test", None) IN
    IF test_key \notin TestKeys
    THEN Ret(ud, END, "error_message", <<>>, <<>>)
    ELSE LET test_data == ALL_TESTS[test_key] IN
         IF test_data.calculation_type = "subscales"
         THEN LET subscale_scores == Get(ud, "subscale_scores", EmptyDict)
                  interpretations == Get(ud, "interpretations", EmptyDict)
              IN  Ret(ud, CHOOSING_TEST, "ok", <<>>,
                      << [ test |-> test_data.name,
                           lines |-> [i \in 1..Len(test_data.subscales) |->
                                        << test_data.subscales[i],
                                           Get(subscale_scores, test_data.subscales[i], 0),
                                           Get(interpretations, test_data.subscales[i], "") >>] ] >>)
         ELSE Ret(ud, CHOOSING_TEST, "ok", <<>>,
                  << [ test |-> test_data.name,
                       lines |-> << << "total", Get(ud, "score", 0),
                                       Get(ud, "interpretation", "") >> >> ] >>)

\* context.user_data.clear(); return ConversationHandler.END
cancel_command(ud, state) == Ret(EmptyDict, END, "cancelled", <<>>, <<>>)

\* ----------------------------------------------------- handlers (legacy)
\* for question_idx, answer_value in answers.items():
\*     try: score += int(answer_value)  except ValueError: pass
RECURSIVE LegacyScore(_, _)
LegacyScore(answers, keys) ==
    IF keys = {} THEN 0
    ELSE LET k == CHOOSE x \in keys : TRUE
         IN  (IF IsInt(answers[k]) THEN IntOf(answers[k]) ELSE 0)
             + LegacyScore(answers, keys \ {k})

\* for threshold, text in interpretations: if score >= threshold: text; break
RECURSIVE LegacyInterpret(_, _, _)
LegacyInterpret(table, score, i) ==
    IF i > Len(table) THEN ""
    ELSE IF score >= table[i][1] THEN table[i][2]
    ELSE LegacyInterpret(table, score, i + 1)

legacy_calculate_test_result(ud, state, user_id, dbt, reachable) ==
    LET test_type == Get(ud, "test_type", None)
        answers == Get(ud, "test_answers", EmptyDict)
    IN  IF test_type \notin LegacyTypes
        THEN Ret(ud, state, "error_message", <<>>, <<>>)
        ELSE LET test_info == TESTS_INFO[test_type]
                 score == LegacyScore(answers, DOMAIN answers)
                 interpretation == LegacyInterpret(test_info.interpretations, score, 1)
             IN  Ret(ud, state, "ok",
                     << save_test_result(user_id, test_type, score, answers,
                                         interpretation, dbt, reachable) >>,
                     << [ test |-> test_info.name,
                          lines |-> << << "total", score, interpretation >> >> ] >>)

test_callback(ud, state, data) ==
    LET test_type == TestTypeOf[data] IN
    IF test_type = "cancel"
    THEN Ret(ud, END, "cancelled", <<>>, <<>>)
    ELSE LET ud1 == Put(ud, "test_type", test_type) IN
         IF test_type \notin LegacyTypes
         THEN Ret(ud1, END, "error_message", <<>>, <<>>)
         ELSE Ret(ud1, CONFIRMING_TEST, "ok", <<>>, <<>>)

\* handlers.py show_test_question: what the call displays.  It returns None
\* either way; an unknown test or an index past the last question gives the
\* error text in place of a question
legacy_show_test_question(ud) ==
    LET test_type == Get(ud, "test_type", None)
        current_question == Get(ud, "current_question", 0)
    IN  IF test_type \notin LegacyTypes
        THEN "error_message"
        ELSE IF current_question >= NumQuestions(TESTS_INFO[test_type])
        THEN "error_message"
        ELSE "ok"

\* start_test under rate_limit("test", ...): the limiter's notice goes through
\* update.message, which is None for a callback
start_test(ud, state, data, limited) ==
    IF limited
    THEN Raise(ud, state, "AttributeError")
    ELSE IF data = "confirm_no"
    THEN Ret(ud, END, "cancelled", <<>>, <<>>)
    ELSE IF Get(ud, "test_type", None) \notin LegacyTypes
    THEN Ret(ud, END, "error_message", <<>>, <<>>)
    ELSE LET ud1 == Put(Put(ud, "test_answers", EmptyDict), "current_question", 0)
         IN  Ret(ud1, TAKING_TEST, legacy_show_test_question(ud1), <<>>, <<>>)

\* a plausible slip: the last question is never asked
MoreQuestionsShort(current_question, test_info) ==
    current_question + 2 < NumQuestions(test_info)

\* current_question + 1 < len(test_info['questions'])
MoreQuestions(current_question, test_info) ==
    current_question + 1 < NumQuestions(test_info)

\* a plausible slip: the answer is filed under the index of the next question
legacy_process_test_answer_keyed_late(ud, state, data, user_id, dbt, reachable) ==
    LET answer_value == AnswerValueOf[data]
        test_type == Get(ud, "test_type", None)
        current_question == Get(ud, "current_question", 0)
    IN  IF test_type \notin LegacyTypes
        THEN Ret(ud, END, "error_message", <<>>, <<>>)
        ELSE IF ~Has(ud, "test_answers")
        THEN Raise(ud, state, "KeyError")
        ELSE LET ud1 == Put(ud, "test_answers",
                            Put(ud["test_answers"], current_question + 1, answer_value))
             IN  IF MoreQuestions(current_question, TESTS_INFO[test_type])
                 THEN LET ud2 == Put(ud1, "current_question", current_question + 1)
                      IN  Ret(ud2, TAKING_TEST, legacy_show_test_question(ud2), <<>>, <<>>)
                 ELSE LET r == legacy_calculate_test_result(ud1, state, user_id, dbt, reachable)
                      IN  Ret(r.ud, SHOWING_RESULT, r.outcome, r.saves, r.view)

legacy_process_test_answer(ud, state, data, user_id, dbt, reachable) ==
    LET answer_value == AnswerValueOf[data]
        test_type == Get(ud, "test_type", None)
        current_question == Get(ud, "current_question", 0)
    IN  IF test_type \notin LegacyTypes
        THEN Ret(ud, END, "error_message", <<>>, <<>>)
        ELSE IF ~Has(ud, "test_answers")
        THEN Raise(ud, state, "KeyError")
        ELSE LET ud1 == Put(ud, "test_answers",
                            Put(ud["test_answers"], current_question, answer_value))
             IN  IF MoreQuestions(current_question, TESTS_INFO[test_type])
                 THEN LET ud2 == Put(ud1, "current_question", current_question + 1)
                      IN  Ret(ud2, TAKING_TEST, legacy_show_test_question(ud2), <<>>, <<>>)
                 ELSE LET r == legacy_calculate_test_result(ud1, state, user_id, dbt, reachable)
                      IN  Ret(r.ud, SHOWING_RESULT, r.outcome, r.saves, r.view)

\* ------------------------------------------------------------ transitions
Init ==
    /\ revision \in {"updated", "legacy"}
    /\ db_type \in {"sqlite", "postgresql"}
    /\ conv = [u \in Users |-> END]
    /\ user_data = [u \in Users |-> EmptyDict]
    /\ outcome = [u \in Users |-> None]
    /\ shown = [u \in Users |-> <<>>]
    /\ keyboard = [u \in Users |-> {}]
    /\ stale = [u \in Users |-> {}]
    /\ save_log = <<>>
    /\ history = [u \in Users |-> [exc |-> "unasked", rows |-> <<>>]]
    /\ now = 0
    /\ last_used = EmptyDict
    /\ invocations = [u \in Users |-> <<>>]
    /\ rate_reply = [u \in Users |-> None]
    /\ today = 1
    /\ tips_data = EmptyDict
    /\ delivered = <<>>
    /\ tip_reply = [kind |-> "none", index |-> 0]
    /\ anonymous_questions = <<>>
    /\ admin_conv = [u \in Users |-> END]
    /\ admin_data = [u \in Users |-> EmptyDict]
    /\ buttons = {}
    /\ reply_conv = [u \in Users |-> "END"]
    /\ reply_data = [u \in Users |-> EmptyDict]
    /\ sent = {}
    /\ reply_events = <<>>
    /\ ask_conv = [u \in Users |-> END]
    /\ ask_reply = [user |-> 0, exc |-> None]
    /\ last_pressed = [u \in Users |-> 0]
    /\ connection = None
    /\ opened = 0
    /\ stale_query = FALSE
    /\ users_table = EmptyDict
    /\ user_settings = {}
    /\ db_value = [op |-> None, user_id |-> 0, failed |-> FALSE, value |-> None]

IsException(out) == out \in {"IndexError", "KeyError", "AttributeError", "TypeError"}

\* the "answer_..." buttons of the question a handler has just rendered:
\* callback_data=f"answer_{i}" for each option (updated), f"answer_{option_value}"
\* for each option value (legacy)
AnswerButtons(rev, ud, state) ==
    IF state # TAKING_TEST THEN {}
    ELSE IF rev = "updated"
    THEN LET q == ALL_TESTS[ud["selected_test"]].questions[ud["current_question"] + 1]
         IN  {d \in DOMAIN AnswerNumOf : AnswerNumOf[d] < Len(q.answers)}
    ELSE LET q == TESTS_INFO[ud["test_type"]].questions[ud["current_question"] + 1]
         IN  {d \in DOMAIN AnswerValueOf : AnswerValueOf[d] \in q.options}

\* the handler's return value becomes the state of the program.  via tells how
\* the update reached the chat: a button of the message the flow is editing
\* ("current"), a button that message no longer shows ("stale"), a command
\* that is answered with a new message ("reply"), or no message at all
\* ("none").  edit_message_text replaces the keyboard of the pressed message;
\* the buttons it showed before stay pressable: a second tap sent before the
\* edit arrived, another device, an earlier message of the chat.  An exception
\* leaves every message as it was.
\* a plausible slip: the session is kept in one dictionary of the bot and not
\* in the user's own context.user_data
ApplyShared(u, r, via) ==
    /\ conv' = [conv EXCEPT ![u] = r.state]
    /\ user_data' = [v \in Users |-> r.ud]
    /\ outcome' = [outcome EXCEPT ![u] = r.outcome]
    /\ shown' = [shown EXCEPT ![u] = r.view]
    /\ keyboard' =
         IF via = "none" \/ (via \in {"current", "stale"} /\ IsException(r.outcome))
         THEN keyboard
         ELSE IF via = "reply" THEN [keyboard EXCEPT ![u] = {}]
         ELSE [keyboard EXCEPT ![u] = AnswerButtons(revision, r.ud, r.state)]
    /\ stale' =
         IF via = "none" \/ IsException(r.outcome)
         THEN stale
         ELSE [stale EXCEPT ![u] = stale[u] \cup keyboard[u]]
    /\ save_log' = save_log \o r.saves
    /\ UNCHANGED <<revision, db_type, aside>>

Apply(u, r, via) ==
    /\ conv' = [conv EXCEPT ![u] = r.state]
    /\ user_data' = [user_data EXCEPT ![u] = r.ud]
    /\ outcome' = [outcome EXCEPT ![u] = r.outcome]
    /\ shown' = [shown EXCEPT ![u] = r.view]
    /\ keyboard' =
         IF via = "none" \/ (via \in {"current", "stale"} /\ IsException(r.outcome))
         THEN keyboard
         ELSE IF via = "reply" THEN [keyboard EXCEPT ![u] = {}]
         ELSE [keyboard EXCEPT ![u] = AnswerButtons(revision, r.ud, r.state)]
    /\ stale' =
         IF via = "none" \/ IsException(r.outcome)
         THEN stale
         ELSE [stale EXCEPT ![u] = stale[u] \cup keyboard[u]]
    /\ save_log' = save_log \o r.saves
    /\ UNCHANGED <<revision, db_type, aside>>

\* where the pressed answer button sits
Via(u, data) == IF data \in keyboard[u] THEN "current" ELSE "stale"

SavesOf(u) == Cardinality({i \in 1..Len(save_log) : save_log[i].user_id = u})

\* len(answers) of a list (updated) or of a dict keyed by question (legacy)
AnswerLen(answers) == Cardinality(DOMAIN answers)

RECURSIVE SavedAnswers(_, _)
SavedAnswers(u, i) ==
    IF i > Len(save_log) THEN 0
    ELSE (IF save_log[i].user_id = u THEN AnswerLen(save_log[i].answers) ELSE 0)
         + SavedAnswers(u, i + 1)

\* the answers u has handed in: saved ones and those of the attempt in progress
AnswersGiven(u) ==
    SavedAnswers(u, 1)
    + (IF conv[u] # TAKING_TEST THEN 0
       ELSE IF revision = "updated" THEN AnswerLen(Get(user_data[u], "answers", <<>>))
       ELSE AnswerLen(Get(user_data[u], "test_answers", EmptyDict)))

\* ---- updated revision: test_conversation of updated_main.py.  A handler is
\* enabled in the state the handlers of updated_handlers.py return for it
\* (CHOOSING_TEST..SHOWING_RESULT) and for the buttons the bot has rendered.
\* /test outside a conversation: the category keyboard, or the rate limiter's
\* notice (the wrapper returns None and no conversation starts)
TestCommand(u) ==
    /\ revision = "updated"
    /\ conv[u] = END
    /\ \E limited \in BOOLEAN :
         Apply(u, IF limited THEN Ret(user_data[u], END, "rate_limited", <<>>, <<>>)
                  ELSE Ret(user_data[u], CHOOSING_TEST, "ok", <<>>, <<>>), "reply")

\* a "test_<key>" or "test_back" button of the keyboards shown while choosing
SelectTest(u) ==
    /\ revision = "updated"
    /\ conv[u] = CHOOSING_TEST
    /\ \E data \in DOMAIN TestKeyOf \cup {"test_back"} :
         Apply(u, select_test(user_data[u], conv[u], data), "current")

\* "test_start" / "test_cancel" of the confirmation keyboard
ConfirmTest(u) ==
    /\ revision = "updated"
    /\ conv[u] = CONFIRMING_TEST
    /\ \E data \in {"test_start", "test_cancel"}, reachable \in BOOLEAN :
         Apply(u, process_test_answer(user_data[u], conv[u], data, u, db_type, reachable),
               "current")

\* an "answer_<i>" button, of the question shown or of an earlier message,
\* while a test is being taken
ProcessTestAnswer(u) ==
    /\ revision = "updated"
    /\ conv[u] = TAKING_TEST
    /\ AnswersGiven(u) < MaxAnswers
    /\ \E data \in (keyboard[u] \cup stale[u]) \cap DOMAIN AnswerNumOf, reachable \in BOOLEAN :
         Apply(u, process_test_answer(user_data[u], conv[u], data, u, db_type, reachable),
               Via(u, data))

\* the "result_<key>" button
ShowTestResult(u) ==
    /\ revision = "updated"
    /\ conv[u] = SHOWING_RESULT
    /\ Apply(u, show_test_result(user_data[u], conv[u]), "current")

\* /cancel, the fallback of the conversation
CancelCommand(u) ==
    /\ revision = "updated"
    /\ conv[u] # END
    /\ Apply(u, cancel_command(user_data[u], conv[u]), "reply")

\* conversation_timeout=300: the conversation ends, user_data is not touched
ConversationTimeout(u) ==
    /\ revision = "updated"
    /\ conv[u] # END
    /\ Apply(u, Ret(user_data[u], END, "timeout", <<>>, <<>>), "none")

\* ---- legacy revision: the states table of tests_handler in main.py
\* /tests, the entry point
TestsCommand(u) ==
    /\ revision = "legacy"
    /\ conv[u] = END
    /\ Apply(u, Ret(user_data[u], CHOOSING_TEST, "ok", <<>>, <<>>), "reply")

\* states 1 and 4: a "test_<type>" button
TestCallback(u) ==
    /\ revision = "legacy"
    /\ conv[u] \in {CHOOSING_TEST, SHOWING_RESULT}
    /\ \E data \in DOMAIN TestTypeOf :
         Apply(u, test_callback(user_data[u], conv[u], data), "current")

\* state 2: "confirm_yes" / "confirm_no"
StartTest(u) ==
    /\ revision = "legacy"
    /\ conv[u] = CONFIRMING_TEST
    /\ \E data \in {"confirm_yes", "confirm_no"}, limited \in BOOLEAN :
         Apply(u, start_test(user_data[u], conv[u], data, limited), "current")

\* state 3: an "answer_<value>" button
LegacyProcessTestAnswer(u) ==
    /\ revision = "legacy"
    /\ conv[u] = TAKING_TEST
    /\ AnswersGiven(u) < MaxAnswers
    /\ \E data \in (keyboard[u] \cup stale[u]) \cap DOMAIN AnswerValueOf, reachable \in BOOLEAN :
         Apply(u, legacy_process_test_answer(user_data[u], conv[u], data, u, db_type, reachable),
               Via(u, data))

\* fallback /cancel: lambda update, context: ConversationHandler.END.  The
\* CommandHandler awaits what its callback returns; the lambda returns the int
\* END, which cannot be awaited: TypeError, and the conversation stays
LegacyCancel(u) ==
    /\ revision = "legacy"
    /\ conv[u] # END
    /\ Apply(u, Raise(user_data[u], conv[u], "TypeError"), "none")

Active == {1}

Next ==
    \E u \in Active :
        \/ TestCommand(u)
        \/ SavesOf(u) < MaxSaves /\ SelectTest(u)
        \/ ConfirmTest(u)
        \/ ProcessTestAnswer(u)
        \/ ShowTestResult(u)
        \/ CancelCommand(u)
        \/ ConversationTimeout(u)
        \/ TestsCommand(u)
        \/ SavesOf(u) < MaxSaves /\ TestCallback(u)
        \/ StartTest(u)
        \/ LegacyProcessTestAnswer(u)
        \/ LegacyCancel(u)

Spec == Init /\ [][Next]_vars

\* ---- two users of the updated revision at once.  The Application handles
\* one update at a time (concurrent_updates is left off) and each handler runs
\* to its end, with its database call, before the next update is taken, so
\* the sessions interleave update by update.  User 1 starts, answers and
\* cancels; user 2 starts and answers.  The store is the sqlite one, whose
\* rows are kept.
InitTwoUsers == Init /\ revision = "updated" /\ db_type = "sqlite"

\* the answers in the sessions and the saved rows of both users
Interleaved == AnswersGiven(1) + AnswersGiven(2)

NextTwoUsers ==
    \/ \E u \in Users : TestCommand(u)
    \/ \E u \in Users : SavesOf(u) < MaxSaves /\ SelectTest(u)
    \/ \E u \in Users : ConfirmTest(u)
    \/ \E u \in Users : Interleaved < MaxInterleaved /\ ProcessTestAnswer(u)
    \/ CancelCommand(1)

SpecTwoUsers == InitTwoUsers /\ [][NextTwoUsers]_vars

\* ---- one user of the updated revision who takes tests one after another:
\* the result button leads back to the choice of a test, and the session
\* keeps what the attempt before left in it
InitRepeat == Init /\ revision = "updated" /\ db_type = "sqlite"

NextRepeat ==
    \E u \in Active :
        \/ TestCommand(u)
        \/ SavesOf(u) < MaxRepeats /\ SelectTest(u)
        \/ ConfirmTest(u)
        \/ ProcessTestAnswer(u)
        \/ ShowTestResult(u)

SpecRepeat == InitRepeat /\ [][NextRepeat]_vars

\* ---- the same user, who also asks for the history of results
GetUserTestResults(u, test_type, limit) ==
    /\ history' = [history EXCEPT
                      ![u] = get_user_test_results(test_results, u, test_type, limit)]
    /\ UNCHANGED <<flow, db_object, rate, tips, admin>>

NextHistory ==
    \/ NextRepeat
    \/ \E u \in Users, test_type \in {None} \cup {ALL_TESTS[k].name : k \in TestKeys},
          limit \in 1..MaxLimit :
         GetUserTestResults(u, test_type, limit)

SpecHistory == InitRepeat /\ [][NextHistory]_vars

\* ---- database.Database: every operation is try: connect, its queries,
\* return; except: return the failure value; finally: disconnect
Usernames == {"ann", "bob"}

\* Database.connect: self.connection is assigned once the driver has connected
connect(conn, connect_ok) == IF connect_ok THEN "open" ELSE conn

\* a plausible slip: the cursor is closed and the connection is not
disconnect_cursor_only(database_type, conn) ==
    IF conn = None THEN [conn |-> conn, raised |-> FALSE]
    ELSE IF conn = "open" THEN [conn |-> "open", raised |-> FALSE]
    ELSE [conn |-> conn, raised |-> database_type = "sqlite"]

\* Database.disconnect: if self.connection: cursor.close(); connection.close().
\* self.connection is not reset, so after a failed connect the object still
\* holds the connection closed before: closing its cursor again raises
\* ProgrammingError with sqlite3 and does nothing with psycopg2
disconnect(database_type, conn) ==
    IF conn = None THEN [conn |-> conn, raised |-> FALSE]
    ELSE IF conn = "open" THEN [conn |-> "closed", raised |-> FALSE]
    ELSE [conn |-> conn, raised |-> database_type = "sqlite"]

\* the frame of an operation, given whether connect and its queries went
\* through: the object afterwards, what the caller gets, and whether a query
\* ran on a closed connection
Operation(database_type, conn, connect_ok, queries_ok, value, failure, reraises) ==
    LET conn1 == connect(conn, connect_ok)
        ok == connect_ok /\ queries_ok
        d == disconnect(database_type, conn1)
    IN  [conn |-> d.conn,
         leaked |-> IF connect_ok /\ d.conn = "open" THEN 1 ELSE 0,
         stale |-> connect_ok /\ conn1 # "open",
         failed |-> ~ok,
         value |-> IF d.raised THEN "raised"
                   ELSE IF ok THEN value
                   ELSE IF reraises THEN "raised" ELSE failure]

\* the object and the record of the call after an operation
Returned(op, user_id, r) ==
    /\ connection' = r.conn
    /\ opened' = opened + r.leaked
    /\ stale_query' = (stale_query \/ r.stale)
    /\ db_value' = [op |-> op, user_id |-> user_id, failed |-> r.failed, value |-> r.value]

\* Database.init_db: CREATE TABLE IF NOT EXISTS for every table; re-raises
InitDb ==
    /\ \E connect_ok, queries_ok \in BOOLEAN :
        Returned("init_db", 0,
                 Operation(db_type, connection, connect_ok, queries_ok, None, None, TRUE))
    /\ UNCHANGED <<flow, history, rate, tips, admin, users_table, user_settings>>

\* the queries of Database.register_user: SELECT the user; UPDATE the names
\* of an existing one; else INSERT the user and then INSERT the settings
\* row. execute commits each statement on its own
register_user(table, settings, user_id, username, select_ok, write_ok, settings_ok) ==
    IF ~select_ok THEN [users |-> table, settings |-> settings, ok |-> FALSE]
    ELSE IF Has(table, user_id)
    THEN [users |-> IF write_ok THEN Put(table, user_id, username) ELSE table,
          settings |-> settings, ok |-> write_ok]
    ELSE IF ~write_ok THEN [users |-> table, settings |-> settings, ok |-> FALSE]
    ELSE [users |-> Put(table, user_id, username),
          settings |-> IF settings_ok THEN settings \cup {user_id} ELSE settings,
          ok |-> settings_ok]

\* db.register_user, as start_command calls it
RegisterUser(u, username) ==
    /\ \E connect_ok, select_ok, write_ok, settings_ok \in BOOLEAN :
        LET q == register_user(users_table, user_settings, u, username,
                               select_ok, write_ok, settings_ok) IN
        /\ users_table' = IF connect_ok THEN q.users ELSE users_table
        /\ user_settings' = IF connect_ok THEN q.settings ELSE user_settings
        /\ Returned("register_user", u,
                    Operation(db_type, connection, connect_ok, q.ok, "True", "False", FALSE))
    /\ UNCHANGED <<flow, history, rate, tips, admin>>

\* db.update_user_activity: one UPDATE of last_activity
UpdateUserActivity(u) ==
    /\ \E connect_ok, queries_ok \in BOOLEAN :
        Returned("update_user_activity", u,
                 Operation(db_type, connection, connect_ok, queries_ok, "True", "False", FALSE))
    /\ UNCHANGED <<flow, history, rate, tips, admin, users_table, user_settings>>

\* db.get_user_settings: the row of the user, or None
GetUserSettings(u) ==
    /\ \E connect_ok, queries_ok \in BOOLEAN :
        Returned("get_user_settings", u,
                 Operation(db_type, connection, connect_ok, queries_ok,
                           IF u \in user_settings THEN "row" ELSE "None", "None", FALSE))
    /\ UNCHANGED <<flow, history, rate, tips, admin, users_table, user_settings>>

\* ---- utils.rate_limit
\* a plausible slip: the time of a refused call is stored too
wrapper_stamps_refused(used, user_key, current_time) ==
    IF Has(used, user_key) /\ current_time - used[user_key] < limit_seconds
    THEN [invoked |-> FALSE, last_used |-> Put(used, user_key, current_time)]
    ELSE [invoked |-> TRUE, last_used |-> Put(used, user_key, current_time)]

\* if user_key in last_used and current_time - last_used[user_key] < limit_seconds:
\*     (the notice to wait) return
\* last_used[user_key] = current_time; return await func(...)
wrapper(used, user_key, current_time) ==
    IF Has(used, user_key) /\ current_time - used[user_key] < limit_seconds
    THEN [invoked |-> FALSE, last_used |-> used]
    ELSE [invoked |-> TRUE, last_used |-> Put(used, user_key, current_time)]

\* a second passes
Tick ==
    /\ now < MaxTime
    /\ now' = now + 1
    /\ UNCHANGED <<flow, db_object, history, tips, admin, last_used, invocations, rate_reply>>

\* user u sends an update to the rate-limited handler
RateLimitedCall(u) ==
    LET r == wrapper(last_used, u, now) IN
    /\ last_used' = r.last_used
    /\ invocations' = IF r.invoked
                      THEN [invocations EXCEPT ![u] = Append(invocations[u], now)]
                      ELSE invocations
    /\ rate_reply' = [rate_reply EXCEPT ![u] = IF r.invoked THEN "invoked" ELSE "wait"]
    /\ UNCHANGED <<flow, db_object, history, tips, admin, now>>

NextRateLimit ==
    \/ Tick
    \/ \E u \in Users : RateLimitedCall(u)

SpecRateLimit == Init /\ [][NextRateLimit]_vars

\* ---- psihotips_bot_makecloud.get_daily_tip
\* user_data after the two "if ... not in context.user_data" initialisations
TipsInitialised(ud) ==
    LET a == IF Has(ud, "last_tip_date") THEN ud ELSE Put(ud, "last_tip_date", 0) IN
    IF Has(a, "given_tips_indices") THEN a ELSE Put(a, "given_tips_indices", <<>>)

\* a plausible slip: every tip is a candidate, shown before or not
available_tips_indices_all(ud) == 0..(NumTips - 1)

\* [i for i, _ in enumerate(FINAL_DAILY_TIPS) if i not in given_tips_indices]
available_tips_indices(ud) ==
    LET given == ud["given_tips_indices"] IN
    {i \in 0..(NumTips - 1) : \A k \in 1..Len(given) : given[k] # i}

\* what random.choice may return: the available indices, all of them once
\* none is left
Choosable(ud) ==
    LET a == available_tips_indices(TipsInitialised(ud)) IN
    IF a = {} THEN 0..(NumTips - 1) ELSE a

\* a plausible slip: the date of the tip is not recorded
get_daily_tip_undated(ud, today_str, chosen_tip_index) ==
    LET ud1 == TipsInitialised(ud)
        reset == available_tips_indices(ud1) = {}
        ud2 == IF reset THEN Put(ud1, "given_tips_indices", <<>>) ELSE ud1
    IN  IF ud1["last_tip_date"] = today_str
        THEN [ud |-> ud1, reply |-> [kind |-> "already", index |-> 0]]
        ELSE IF reset /\ NumTips = 0
        THEN [ud |-> ud2, reply |-> [kind |-> "no_tips", index |-> 0]]
        ELSE [ud |-> Put(ud2, "given_tips_indices",
                         Append(ud2["given_tips_indices"], chosen_tip_index)),
              reply |-> [kind |-> "tip", index |-> chosen_tip_index]]

\* get_daily_tip with the index random.choice returned; the empty string
\* that last_tip_date starts as is day 0
get_daily_tip(ud, today_str, chosen_tip_index) ==
    LET ud1 == TipsInitialised(ud)
        reset == available_tips_indices(ud1) = {}
        ud2 == IF reset THEN Put(ud1, "given_tips_indices", <<>>) ELSE ud1
    IN  IF ud1["last_tip_date"] = today_str
        THEN [ud |-> ud1, reply |-> [kind |-> "already", index |-> 0]]
        ELSE IF reset /\ NumTips = 0
        THEN [ud |-> ud2, reply |-> [kind |-> "no_tips", index |-> 0]]
        ELSE [ud |-> Put(Put(ud2, "given_tips_indices",
                             Append(ud2["given_tips_indices"], chosen_tip_index)),
                         "last_tip_date", today_str),
              reply |-> [kind |-> "tip", index |-> chosen_tip_index]]

\* the user presses the daily tip button
GetDailyTip ==
    \E chosen_tip_index \in Choosable(tips_data) :
        LET r == get_daily_tip(tips_data, today, chosen_tip_index) IN
        /\ tips_data' = r.ud
        /\ tip_reply' = r.reply
        /\ delivered' = IF r.reply.kind = "tip"
                        THEN Append(delivered, [day |-> today, tip |-> r.reply.index])
                        ELSE delivered
        /\ UNCHANGED <<flow, db_object, history, rate, admin, today>>

\* midnight passes
NextDay ==
    /\ today < MaxDays
    /\ today' = today + 1
    /\ UNCHANGED <<flow, db_object, history, rate, admin, tips_data, delivered, tip_reply>>

NextTips == GetDailyTip \/ NextDay

SpecTips == Init /\ [][NextTips]_vars

\* ---- the administrator's replies to anonymous questions
\* config.ADMIN_USER_ID, as one of Users
ADMIN_USER_ID == 1

ADMIN_REPLYING == 2

ASKING_QUESTION == 1

\* the keys config.NOTIFICATION_SETTINGS has
NOTIFICATION_SETTINGS ==
    {"daily_tip_emoji", "answered_question_emoji", "unanswered_question_emoji"}

\* db.get_user_questions: the rows of the user
get_user_questions(table, user_id) ==
    {i \in 1..Len(table) : table[i].user_id = user_id}

\* handlers.ask_question_command: the state it returns, or the exception it
\* ends with. NOTIFICATION_SETTINGS["new_question_emoji"] is looked up once
\* for every row of the user, by the condition of the list comprehension
ask_question_command(table, user_id) ==
    LET user_questions == get_user_questions(table, user_id) IN
    IF user_questions # {} /\ "new_question_emoji" \notin NOTIFICATION_SETTINGS
    THEN [state |-> END, exc |-> "KeyError"]
    ELSE IF \E i \in user_questions : table[i].status = "new"
    THEN [state |-> END, exc |-> None]
    ELSE [state |-> ASKING_QUESTION, exc |-> None]

\* db.save_anonymous_question: sqlite inserts through execute, which commits;
\* postgresql inserts through query, which does not, and disconnect closes
\* the connection with the row uncommitted
save_anonymous_question(table, database, user_id) ==
    IF database = "sqlite"
    THEN Append(table, [user_id |-> user_id, status |-> "new"])
    ELSE table

\* db.get_question_by_id: the row, or an empty one for None
get_question_by_id(table, question_id) ==
    IF question_id \in 1..Len(table)
    THEN [found |-> TRUE, user_id |-> table[question_id].user_id]
    ELSE [found |-> FALSE, user_id |-> 0]

\* a plausible slip: the command does not look at who sent it
admin_reply_command_unchecked(ud, user_id, question_id, table) ==
    IF ~get_question_by_id(table, question_id).found
    THEN [state |-> END, ud |-> ud, reply |-> "not_found"]
    ELSE [state |-> ADMIN_REPLYING, ud |-> Put(ud, "question_id", question_id),
          reply |-> "write_answer"]

\* handlers.admin_reply_command for the message /reply_<question_id>; the
\* entry pattern ^/reply_\d+$ lets only well-formed commands through
admin_reply_command(ud, user_id, question_id, table) ==
    IF user_id # ADMIN_USER_ID
    THEN [state |-> END, ud |-> ud, reply |-> "no_access"]
    ELSE IF ~get_question_by_id(table, question_id).found
    THEN [state |-> END, ud |-> ud, reply |-> "not_found"]
    ELSE [state |-> ADMIN_REPLYING, ud |-> Put(ud, "question_id", question_id),
          reply |-> "write_answer"]

\* db.save_question_answer: UPDATE anonymous_questions SET answer_text,
\* status = the answered mark WHERE question_id; execute commits it
save_question_answer(table, question_id) ==
    [i \in 1..Len(table) |->
        IF i = question_id THEN [table[i] EXCEPT !.status = "answered"] ELSE table[i]]

\* a plausible slip: the asker is notified whether or not the answer was saved
save_admin_reply_notifies_unsaved(ud, user_id, table, success, got_through) ==
    LET question_id == Get(ud, "question_id", 0)
        question == get_question_by_id(table, question_id)
        saved == IF success THEN save_question_answer(table, question_id) ELSE table
        message == [bot |-> "handlers", sender |-> user_id, chat_id |-> question.user_id]
    IN  IF question_id = 0 \/ ~question.found
        THEN [table |-> table, sent |-> {}, events |-> <<>>]
        ELSE [table |-> saved,
              sent |-> IF got_through THEN {message} ELSE {},
              events |-> (IF success THEN <<"saved">> ELSE <<"save_failed">>)
                         \o (IF got_through THEN <<"notified">> ELSE <<"notify_failed">>)]

\* handlers.save_admin_reply: the table, the notifications delivered and what
\* was done in order, given whether db.save_question_answer succeeded and
\* whether bot.send_message got through
save_admin_reply(ud, user_id, table, success, got_through) ==
    LET question_id == Get(ud, "question_id", 0)
        question == get_question_by_id(table, question_id)
        message == [bot |-> "handlers", sender |-> user_id, chat_id |-> question.user_id]
    IN  IF question_id = 0 \/ ~question.found
        THEN [table |-> table, sent |-> {}, events |-> <<>>]
        ELSE IF ~success
        THEN [table |-> table, sent |-> {}, events |-> <<"save_failed">>]
        ELSE [table |-> save_question_answer(table, question_id),
              sent |-> IF got_through THEN {message} ELSE {},
              events |-> IF got_through THEN <<"saved", "notified">>
                         ELSE <<"saved", "notify_failed">>]

\* a user sends /ask outside the question conversation; a handler that
\* raises leaves the conversation where it was
AskQuestionCommand(u) ==
    /\ ask_conv[u] = END
    /\ LET r == ask_question_command(anonymous_questions, u) IN
       /\ ask_conv' = [ask_conv EXCEPT ![u] = r.state]
       /\ ask_reply' = [user |-> u, exc |-> r.exc]
    /\ UNCHANGED <<flow, db_object, history, rate, tips, last_pressed, anonymous_questions, admin_conv, admin_data,
                   buttons, reply_conv, reply_data, sent, reply_events>>

\* handlers.save_question: the text of a user who is in ASKING_QUESTION
SaveQuestion(u) ==
    /\ ask_conv[u] = ASKING_QUESTION
    /\ Len(anonymous_questions) < MaxQuestions
    /\ anonymous_questions' = save_anonymous_question(anonymous_questions, db_type, u)
    /\ ask_conv' = [ask_conv EXCEPT ![u] = END]
    /\ UNCHANGED <<flow, db_object, history, rate, tips, last_pressed, ask_reply, admin_conv, admin_data, buttons,
                   reply_conv, reply_data, sent, reply_events>>

\* handlers.cancel_question, the fallback /cancel
CancelQuestion(u) ==
    /\ ask_conv[u] = ASKING_QUESTION
    /\ ask_conv' = [ask_conv EXCEPT ![u] = END]
    /\ UNCHANGED <<flow, db_object, history, rate, tips, last_pressed, ask_reply, anonymous_questions, admin_conv, admin_data,
                   buttons, reply_conv, reply_data, sent, reply_events>>

\* a user sends /reply_<question_id> outside a reply conversation
AdminReplyCommand(u, question_id) ==
    /\ admin_conv[u] = END
    /\ LET r == admin_reply_command(admin_data[u], u, question_id, anonymous_questions) IN
       /\ admin_conv' = [admin_conv EXCEPT ![u] = r.state]
       /\ admin_data' = [admin_data EXCEPT ![u] = r.ud]
    /\ UNCHANGED <<flow, db_object, history, rate, tips, last_pressed, ask_reply, ask_conv, reply_events, anonymous_questions, buttons, reply_conv,
                   reply_data, sent>>

\* a text that is no command arrives from a user who is in ADMIN_REPLYING
SaveAdminReply(u) ==
    /\ admin_conv[u] = ADMIN_REPLYING
    /\ \E success, got_through \in BOOLEAN :
        LET r == save_admin_reply(admin_data[u], u, anonymous_questions,
                                  success, got_through) IN
        /\ anonymous_questions' = r.table
        /\ sent' = sent \cup r.sent
        /\ reply_events' = r.events
    /\ admin_conv' = [admin_conv EXCEPT ![u] = END]
    /\ UNCHANGED <<flow, db_object, history, rate, tips, last_pressed, ask_reply, ask_conv, admin_data, buttons, reply_conv, reply_data>>

\* handlers.cancel_admin_reply, the fallback /cancel
CancelAdminReply(u) ==
    /\ admin_conv[u] = ADMIN_REPLYING
    /\ admin_conv' = [admin_conv EXCEPT ![u] = END]
    /\ admin_data' = [admin_data EXCEPT ![u] =
                         [k \in DOMAIN admin_data[u] \ {"question_id"} |-> admin_data[u][k]]]
    /\ UNCHANGED <<flow, db_object, history, rate, tips, last_pressed, ask_reply, ask_conv, reply_events, anonymous_questions, buttons, reply_conv,
                   reply_data, sent>>

\* psihotips_bot_makecloud.ask_anonymous_question_handler: the administrator
\* is sent the question with a button admin_reply_to_<user id>
AskAnonymousQuestion(u) ==
    /\ u \notin buttons
    /\ buttons' = buttons \cup {u}
    /\ UNCHANGED <<flow, db_object, history, rate, tips, last_pressed, ask_reply, ask_conv, reply_events, anonymous_questions, admin_conv, admin_data,
                   reply_conv, reply_data, sent>>

\* psihotips_bot_makecloud.admin_start_reply_flow: the handler does not look
\* at who pressed the button, and a press by any user is let through to it
AdminStartReplyFlow(u, original_user_id) ==
    /\ reply_conv[u] = "END"
    /\ original_user_id \in buttons
    /\ reply_data' = [reply_data EXCEPT ![u] =
                         Put(reply_data[u], "admin_reply_target_user_id", original_user_id)]
    /\ reply_conv' = [reply_conv EXCEPT ![u] = "ADMIN_REPLY_STATE"]
    /\ last_pressed' = [last_pressed EXCEPT ![u] = original_user_id]
    /\ UNCHANGED <<flow, db_object, history, rate, tips, ask_reply, ask_conv, reply_events, anonymous_questions, admin_conv, admin_data,
                   buttons, sent>>

\* a reply button is pressed by a user who is in ADMIN_REPLY_STATE: the
\* conversation is entered only from outside it, the state has a handler for
\* texts alone and the fallback is a command, so no handler runs
PressWhileReplying(u, original_user_id) ==
    /\ reply_conv[u] = "ADMIN_REPLY_STATE"
    /\ original_user_id \in buttons
    /\ last_pressed' = [last_pressed EXCEPT ![u] = original_user_id]
    /\ UNCHANGED <<flow, db_object, history, rate, tips, anonymous_questions, admin_conv, admin_data,
                   buttons, reply_conv, reply_data, sent, reply_events, ask_conv, ask_reply>>

\* psihotips_bot_makecloud.admin_process_reply_message: the new user_data
\* and the replies to send, given whether bot.send_message got through
admin_process_reply_message(ud, user_id, got_through) ==
    LET target_user_id == Get(ud, "admin_reply_target_user_id", 0)
        popped == [k \in DOMAIN ud \ {"admin_reply_target_user_id"} |-> ud[k]]
    IN  IF user_id # ADMIN_USER_ID
        THEN [ud |-> ud, sent |-> {}]
        ELSE IF target_user_id = 0
        THEN [ud |-> ud, sent |-> {}]
        ELSE [ud |-> popped,
              sent |-> IF got_through
                       THEN {[bot |-> "makecloud", sender |-> user_id,
                              chat_id |-> target_user_id]}
                       ELSE {}]

\* a text that is no command arrives from a user who is in ADMIN_REPLY_STATE
AdminProcessReplyMessage(u) ==
    /\ reply_conv[u] = "ADMIN_REPLY_STATE"
    /\ \E got_through \in BOOLEAN :
        LET r == admin_process_reply_message(reply_data[u], u, got_through) IN
        /\ reply_data' = [reply_data EXCEPT ![u] = r.ud]
        /\ sent' = sent \cup r.sent
    /\ reply_conv' = [reply_conv EXCEPT ![u] = "END"]
    /\ UNCHANGED <<flow, db_object, history, rate, tips, last_pressed, ask_reply, ask_conv, reply_events, anonymous_questions, admin_conv, admin_data,
                   buttons>>

\* psihotips_bot_makecloud.admin_cancel_reply, the fallback /cancel_admin_reply
AdminCancelReply(u) ==
    /\ reply_conv[u] = "ADMIN_REPLY_STATE"
    /\ reply_conv' = [reply_conv EXCEPT ![u] = "END"]
    /\ reply_data' = [reply_data EXCEPT ![u] =
                         [k \in DOMAIN reply_data[u] \ {"admin_reply_target_user_id"}
                            |-> reply_data[u][k]]]
    /\ UNCHANGED <<flow, db_object, history, rate, tips, last_pressed, ask_reply, ask_conv, reply_events, anonymous_questions, admin_conv, admin_data,
                   buttons, sent>>

NextAdmin ==
    \E u \in Users :
        \/ AskQuestionCommand(u)
        \/ SaveQuestion(u)
        \/ CancelQuestion(u)
        \/ \E question_id \in 1..(MaxQuestions + 1) : AdminReplyCommand(u, question_id)
        \/ SaveAdminReply(u)
        \/ CancelAdminReply(u)
        \/ AskAnonymousQuestion(u)
        \/ \E original_user_id \in Users : AdminStartReplyFlow(u, original_user_id)
        \/ AdminProcessReplyMessage(u)
        \/ AdminCancelReply(u)


\* main.py registers these conversations; the tips bot is a program of its own
InitAdmin == Init /\ revision = "legacy"

SpecAdmin == InitAdmin /\ [][NextAdmin]_vars

\* the Database object as the handlers use it, one call after another
NextDatabase ==
    \/ InitDb
    \/ \E u \in Users :
        \/ \E username \in Usernames : RegisterUser(u, username)
        \/ UpdateUserActivity(u)
        \/ GetUserSettings(u)
        \/ GetUserTestResults(u, None, 1)

SpecDatabase == Init /\ [][NextDatabase]_vars

\* the tips bot alone, with the presses that reach no handler
NextReply ==
    \E u \in Users :
        \/ AskAnonymousQuestion(u)
        \/ \E original_user_id \in Users : AdminStartReplyFlow(u, original_user_id)
        \/ \E original_user_id \in Users : PressWhileReplying(u, original_user_id)
        \/ AdminProcessReplyMessage(u)
        \/ AdminCancelReply(u)

SpecReply == InitAdmin /\ [][NextReply]_vars

\* ---- the conversations as main.py and updated_main.py register them.
\* updated_main.py: SELECTING_TEST, ANSWERING_TEST, SHOWING_RESULT = range(3)
SELECTING_TEST == 0
ANSWERING_TEST == 1
MAIN_SHOWING_RESULT == 2

\* states={...} of the test ConversationHandler: per state the callback and
\* the pattern of its CallbackQueryHandler
Registered(rev) ==
    IF rev = "updated"
    THEN [st \in {SELECTING_TEST, ANSWERING_TEST, MAIN_SHOWING_RESULT} |->
            IF st = SELECTING_TEST
            THEN [handler |-> "select_test", pattern |-> "test_"]
            ELSE IF st = ANSWERING_TEST
            THEN [handler |-> "process_test_answer", pattern |-> "answer_"]
            ELSE [handler |-> "show_test_result", pattern |-> "result_"]]
    ELSE [st \in 1..4 |->
            IF st \in {1, 4}
            THEN [handler |-> "test_callback", pattern |-> "test_"]
            ELSE IF st = 2
            THEN [handler |-> "start_test", pattern |-> "confirm_"]
            ELSE [handler |-> "process_test_answer", pattern |-> "answer_"]]

\* the pattern among "^test_", "^confirm_", "^answer_", "^result_" that the
\* callback data matches
PatternOf(data) ==
    IF data \in (DOMAIN AnswerNumOf) \cup (DOMAIN AnswerValueOf) THEN "answer_"
    ELSE IF data \in {"confirm_yes", "confirm_no"} THEN "confirm_"
    ELSE IF data = "result_<test_key>" THEN "result_"
    ELSE "test_"

\* the callback buttons of the message the handler that returned state has
\* rendered for u
Rendered(u) ==
    IF revision = "updated"
    THEN IF conv[u] = CHOOSING_TEST
         THEN IF shown[u] = <<>>
              THEN {"test_cat_<category_key>"}
              ELSE {d \in DOMAIN TestKeyOf : TestKeyOf[d] = user_data[u]["selected_test"]}
                   \cup {"test_back"}
         ELSE IF conv[u] = CONFIRMING_TEST THEN {"test_start", "test_cancel"}
         ELSE IF conv[u] = TAKING_TEST THEN keyboard[u]
         ELSE IF conv[u] = SHOWING_RESULT THEN {"result_<test_key>"}
         ELSE {}
    ELSE IF conv[u] = CHOOSING_TEST THEN DOMAIN TestTypeOf
         ELSE IF conv[u] = CONFIRMING_TEST THEN {"confirm_yes", "confirm_no"}
         ELSE IF conv[u] = TAKING_TEST THEN keyboard[u]
         ELSE {}

\* the registered callback applied to the update
CallHandler(handler, u, data, limited, reachable) ==
    IF handler = "select_test"
    THEN IF data \in (DOMAIN TestKeyOf) \cup {"test_back"}
         THEN select_test(user_data[u], conv[u], data)
         ELSE Ret(user_data[u], END, "error_message", <<>>, <<>>)
    ELSE IF handler = "show_test_result"
    THEN show_test_result(user_data[u], conv[u])
    ELSE IF handler = "test_callback"
    THEN test_callback(user_data[u], conv[u], data)
    ELSE IF handler = "start_test"
    THEN start_test(user_data[u], conv[u], data, limited)
    ELSE IF revision = "updated"
    THEN process_test_answer(user_data[u], conv[u], data, u, db_type, reachable)
    ELSE legacy_process_test_answer(user_data[u], conv[u], data, u, db_type, reachable)

\* a button press: the ConversationHandler looks the user's state up in its
\* states table and hands the update to the callback registered there, when
\* the data matches its pattern; any other press is not handled
WiredCallback(u) ==
    /\ conv[u] \in DOMAIN Registered(revision)
    /\ \E data \in Rendered(u) \cup stale[u], limited \in BOOLEAN, reachable \in BOOLEAN :
         LET reg == Registered(revision)[conv[u]] IN
         /\ PatternOf(data) = reg.pattern
         /\ reg.pattern = "test_" => SavesOf(u) < MaxSaves
         /\ reg.pattern = "answer_" => AnswersGiven(u) < MaxAnswers
         /\ Apply(u, CallHandler(reg.handler, u, data, limited, reachable),
                  IF reg.pattern = "answer_" THEN Via(u, data) ELSE "current")

NextWired ==
    \E u \in Active :
        \/ TestCommand(u)
        \/ TestsCommand(u)
        \/ WiredCallback(u)
        \/ CancelCommand(u)
        \/ ConversationTimeout(u)
        \/ LegacyCancel(u)

SpecWired == Init /\ [][NextWired]_vars

\* ================================================================= claims
\* the updated flow has just computed a result for user u
Computed(u) == revision = "updated" /\ conv[u] = SHOWING_RESULT

SelectedTest(u) == ALL_TESTS[user_data[u]["selected_test"]]

\* a complete answer list with every entry an option of its question
ValidAnswers(test_data, answers) ==
    /\ Len(answers) = NumQuestions(test_data)
    /\ \A i \in 1..Len(answers) :
         answers[i] \in 0..(Len(test_data.questions[i].scores) - 1)

\* the sum of f over the finite set S
RECURSIVE Sigma(_, _)
Sigma(S, f) ==
    IF S = {} THEN 0
    ELSE LET x == CHOOSE y \in S : TRUE IN f[x] + Sigma(S \ {x}, f)

\* the score the selected option of each question carries
Picked(test_data, answers) ==
    [i \in 1..NumQuestions(test_data) |-> test_data.questions[i].scores[answers[i] + 1]]

\* the latest call of save_test_result made for user u
LastSave(u) ==
    LET idx == {i \in 1..Len(save_log) : save_log[i].user_id = u}
    IN  save_log[CHOOSE i \in idx : \A j \in idx : j <= i]

\* C1: for a sum test and a complete, valid answer list the computed score is
\* the sum, over every question, of the score of the option selected for it;
\* options scored [0,1] and [0,2] give 3 for answers [1,1] and 0 for [0,0].
C1_SumScore ==
    \A u \in Users :
        (Computed(u) /\ SelectedTest(u).calculation_type = "sum"
            /\ ValidAnswers(SelectedTest(u), user_data[u]["answers"]))
        => LET t == SelectedTest(u)
               a == user_data[u]["answers"]
               expected == Sigma(1..NumQuestions(t), Picked(t, a))
           IN  /\ user_data[u]["score"] = expected
               /\ LastSave(u).score = expected
               /\ LastSave(u).answers = a
               /\ (t.name = "Sum2" /\ a = <<1, 1>>) => user_data[u]["score"] = 3
               /\ (t.name = "Sum2" /\ a = <<0, 0>>) => user_data[u]["score"] = 0

C1_Witness ==
    /\ Computed(1)
    /\ user_data[1]["selected_test"] = "sum2"
    /\ user_data[1]["answers"] = <<1, 1>>
    /\ user_data[1]["score"] = 3

\* the positions of the questions tagged with subscale s
TaggedWith(test_data, s) ==
    {i \in 1..NumQuestions(test_data) : test_data.questions[i].subscale = s}

\* C2: for a subscale test and a complete, valid answer list each subscale's
\* score is the sum of the selected options' scores over exactly the questions
\* tagged with it, each question paired with the answer at its own position.
C2_SubscaleScore ==
    \A u \in Users :
        (Computed(u) /\ SelectedTest(u).calculation_type = "subscales"
            /\ ValidAnswers(SelectedTest(u), user_data[u]["answers"]))
        => LET t == SelectedTest(u)
               a == user_data[u]["answers"]
           IN  /\ DOMAIN user_data[u]["subscale_scores"] = SeqRange(t.subscales)
               /\ \A s \in SeqRange(t.subscales) :
                    user_data[u]["subscale_scores"][s] = Sigma(TaggedWith(t, s), Picked(t, a))
               /\ LastSave(u).score = Sigma(1..NumQuestions(t), Picked(t, a))

C2_Witness ==
    /\ Computed(1)
    /\ user_data[1]["selected_test"] = "sub3"
    /\ user_data[1]["answers"] = <<0, 1, 1>>
    /\ user_data[1]["subscale_scores"] = [A |-> 1, B |-> 0]

\* the texts of the entries of a table whose inclusive range holds the score
Matching(table, score) ==
    {table[i].text : i \in {j \in 1..Len(table) :
                              table[j].min_score <= score /\ score <= table[j].max_score}}

\* C3: the interpretation returned for a score (the total of a sum test, each
\* subscale's score in that subscale's own list) is the text of the entry
\* whose inclusive range [min_score, max_score] contains the score.
C3_Interpretation ==
    \A u \in Users :
        Computed(u)
        => LET t == SelectedTest(u) IN
           IF t.calculation_type = "subscales"
           THEN \A s \in SeqRange(t.subscales) :
                  LET m == Matching(t.interpretations[s], user_data[u]["subscale_scores"][s])
                  IN  m # {} => user_data[u]["interpretations"][s] \in m
           ELSE LET m == Matching(t.interpretations, user_data[u]["score"])
                IN  m # {} => /\ user_data[u]["interpretation"] \in m
                              /\ LastSave(u).interpretation \in m

C3_Witness ==
    /\ Computed(1)
    /\ user_data[1]["selected_test"] = "sum2"
    /\ user_data[1]["score"] = 3
    /\ user_data[1]["interpretation"] = "high"

\* the interpretation texts a saved row carries
SavedTexts(r) ==
    IF r.interpretation \in STRING THEN {r.interpretation}
    ELSE {r.interpretation[i][2] : i \in 1..Len(r.interpretation)}

\* C4: when no range contains the computed score the computation fails; no
\* result with an empty interpretation is ever kept for display or saved.
C4_NoEmptyInterpretation ==
    /\ \A i \in 1..Len(save_log) : "" \notin SavedTexts(save_log[i])
    /\ \A u \in Users :
         /\ Get(user_data[u], "interpretation", "x") # ""
         /\ \A j \in 1..Len(shown[u]) :
              \A k \in 1..Len(shown[u][j].lines) : shown[u][j].lines[k][3] # ""

\* the question the session of u is at, in either revision
InTest(u) ==
    /\ conv[u] = TAKING_TEST
    /\ \/ /\ revision = "updated"
          /\ Get(user_data[u], "selected_test", None) \in TestKeys
          /\ Get(user_data[u], "current_question", 0)
                 < NumQuestions(ALL_TESTS[user_data[u]["selected_test"]])
       \/ /\ revision = "legacy"
          /\ Get(user_data[u], "test_type", None) \in LegacyTypes

\* the button is not one of the options of the current question
NotAnOption(u, data) ==
    IF revision = "updated"
    THEN /\ data \in DOMAIN AnswerNumOf
         /\ AnswerNumOf[data] >=
               Len(SelectedTest(u).questions[user_data[u]["current_question"] + 1].scores)
    ELSE /\ data \in DOMAIN AnswerValueOf
         /\ AnswerValueOf[data] \notin
               TESTS_INFO[user_data[u]["test_type"]].questions[
                   Get(user_data[u], "current_question", 0) + 1].options

\* the step is the handling of button data pressed by u
Pressed(u, data) ==
    /\ data \in keyboard[u] \cup stale[u]
    /\ \E reachable \in BOOLEAN :
         Apply(u, IF revision = "updated"
                  THEN process_test_answer(user_data[u], conv[u], data, u, db_type, reachable)
                  ELSE legacy_process_test_answer(user_data[u], conv[u], data, u, db_type,
                                                  reachable),
               Via(u, data))

\* C5: an answer whose option index is not below the number of options of the
\* current question is rejected and leaves the session (current question,
\* answers, subscale buckets) exactly as it was.
C5_OutOfRangeRejected ==
    [][\A u \in Users : \A data \in (DOMAIN AnswerNumOf) \cup (DOMAIN AnswerValueOf) :
          (InTest(u) /\ NotAnOption(u, data) /\ Pressed(u, data))
          => (user_data'[u] = user_data[u] /\ outcome'[u] # "ok")]_vars

\* the answers recorded so far are options of their questions
ValidSoFar(test_data, answers) ==
    /\ Len(answers) <= NumQuestions(test_data)
    /\ \A i \in 1..Len(answers) :
         answers[i] \in 0..(Len(test_data.questions[i].scores) - 1)

\* C6: a session on a test of n questions is Completed, with its result
\* computed, exactly when n valid answers have been recorded: never before
\* the n-th answer and always after it.
C6_Progression ==
    \A u \in Users :
        /\ (revision = "updated" /\ conv[u] \in {TAKING_TEST, SHOWING_RESULT}
              /\ ValidSoFar(SelectedTest(u), user_data[u]["answers"]))
           => /\ conv[u] = SHOWING_RESULT
                   <=> Len(user_data[u]["answers"]) = NumQuestions(SelectedTest(u))
              /\ conv[u] = SHOWING_RESULT
                   => /\ LastSave(u).answers = user_data[u]["answers"]
                      /\ LastSave(u).test_type = SelectedTest(u).name
        /\ (revision = "legacy" /\ conv[u] \in {TAKING_TEST, SHOWING_RESULT})
           => LET n == NumQuestions(TESTS_INFO[user_data[u]["test_type"]])
                  ta == user_data[u]["test_answers"]
              IN  /\ conv[u] = SHOWING_RESULT <=> DOMAIN ta = 0..(n - 1)
                  /\ conv[u] = TAKING_TEST => Cardinality(DOMAIN ta) < n
                  /\ conv[u] = SHOWING_RESULT
                       => /\ LastSave(u).answers = ta
                          /\ LastSave(u).test_type = user_data[u]["test_type"]

C6_Witness ==
    /\ Computed(1)
    /\ user_data[1]["selected_test"] = "sub3"
    /\ Len(user_data[1]["answers"]) = 3
    /\ LastSave(1).answers = user_data[1]["answers"]

\* the answers a session holds and the index it is at, in either revision
HasSession(u) ==
    IF revision = "updated" THEN Has(user_data[u], "answers")
    ELSE Has(user_data[u], "test_answers")

AnswersCount(u) ==
    IF revision = "updated" THEN Len(user_data[u]["answers"])
    ELSE Cardinality(DOMAIN user_data[u]["test_answers"])

CurrentIndex(u) == Get(user_data[u], "current_question", 0)

\* the step records an answer of u (it is neither a reset nor a no-op)
Recorded(u) ==
    IF revision = "updated"
    THEN /\ Has(user_data[u], "answers") /\ Has(user_data'[u], "answers")
         /\ user_data'[u]["answers"] # user_data[u]["answers"]
         /\ user_data'[u]["answers"] # <<>>
    ELSE /\ Has(user_data[u], "test_answers") /\ Has(user_data'[u], "test_answers")
         /\ user_data'[u]["test_answers"] # user_data[u]["test_answers"]
         /\ DOMAIN user_data'[u]["test_answers"] # {}

\* the step stores exactly one answer, for the current question, and keeps
\* every earlier answer
StoredAtCurrent(u) ==
    IF revision = "updated"
    THEN /\ Len(user_data[u]["answers"]) = CurrentIndex(u)
         /\ Len(user_data'[u]["answers"]) = CurrentIndex(u) + 1
         /\ SubSeq(user_data'[u]["answers"], 1, CurrentIndex(u)) = user_data[u]["answers"]
    ELSE LET ta == user_data[u]["test_answers"]
             tb == user_data'[u]["test_answers"]
         IN  /\ CurrentIndex(u) \notin DOMAIN ta
             /\ DOMAIN tb = (DOMAIN ta) \cup {CurrentIndex(u)}
             /\ \A k \in DOMAIN ta : tb[k] = ta[k]

LegacyLast(u) ==
    /\ revision = "legacy"
    /\ CurrentIndex(u) + 1 >= NumQuestions(TESTS_INFO[user_data[u]["test_type"]])

TestNamed(name) == ALL_TESTS[CHOOSE k \in TestKeys : ALL_TESTS[k].name = name]

\* the answers of a saved row are complete and are options of their questions
ValidRow(r) ==
    IF revision = "updated"
    THEN ValidAnswers(TestNamed(r.test_type), r.answers)
    ELSE LET qs == TESTS_INFO[r.test_type].questions
         IN  /\ DOMAIN r.answers = 0..(Len(qs) - 1)
             /\ \A k \in DOMAIN r.answers : r.answers[k] \in qs[k + 1].options

\* C8: a score is never computed from an answer list of the wrong length or
\* holding an entry that is not an option of its question; such a list makes
\* the computation fail.
C8_OnlyValidAnswerSetsScored ==
    \A i \in 1..Len(save_log) : ValidRow(save_log[i])

\* the rows saved for u
SavedFor(u) == SelectSeq(save_log, LAMBDA r : r.user_id = u)

\* C9: a result is computed and saved only by the step that completes a
\* session, with an answer recorded for every question; the lifecycle goes
\* NotStarted -> InProgress -> Completed or InProgress -> Cancelled only.
C9_SavedOnlyWhenCompleted ==
    [][\A u \in Users :
         /\ SavedFor(u)' # SavedFor(u)
            => /\ conv[u] = TAKING_TEST /\ conv'[u] = SHOWING_RESULT
               /\ Len(SavedFor(u)') = Len(SavedFor(u)) + 1
               /\ LET r == SavedFor(u)'[Len(SavedFor(u)')] IN
                  IF revision = "updated"
                  THEN /\ r.answers = user_data'[u]["answers"]
                       /\ Len(r.answers) = NumQuestions(ALL_TESTS[user_data'[u]["selected_test"]])
                       /\ r.test_type = ALL_TESTS[user_data'[u]["selected_test"]].name
                  ELSE /\ r.answers = user_data'[u]["test_answers"]
                       /\ DOMAIN r.answers =
                            0..(NumQuestions(TESTS_INFO[user_data'[u]["test_type"]]) - 1)
                       /\ r.test_type = user_data'[u]["test_type"]
         /\ (conv'[u] = SHOWING_RESULT /\ conv[u] # SHOWING_RESULT)
            => (conv[u] = TAKING_TEST /\ SavedFor(u)' # SavedFor(u))
         /\ (conv'[u] = TAKING_TEST /\ conv[u] # TAKING_TEST) => conv[u] = CONFIRMING_TEST
         /\ conv[u] = END => conv'[u] \in {END, CHOOSING_TEST}]_vars

C9_Witness ==
    /\ Computed(1)
    /\ user_data[1]["selected_test"] = "sum2"
    /\ Len(SavedFor(1)) = 1
    /\ SavedFor(1)[1].answers = <<0, 1>>
    /\ SavedFor(1)[1].committed

\* the step is a request of u to cancel, or the timeout of the conversation
CancelRequested(u) ==
    \/ CancelCommand(u)
    \/ ConversationTimeout(u)
    \/ LegacyCancel(u)
    \/ outcome'[u] \in {"cancelled", "timeout"}

\* C10: cancelling a session in progress, or its conversation timing out, ends
\* it without computing or saving a result; once ended, no answer is accepted
\* into it and nothing is saved for it, and a later attempt starts from an
\* empty list.
C10_CancelDiscards ==
    [][\A u \in Users :
         /\ (conv[u] = TAKING_TEST /\ CancelRequested(u))
            => (conv'[u] = END /\ save_log' = save_log)
         /\ conv[u] = END
            => (user_data'[u] = user_data[u] /\ SavedFor(u)' = SavedFor(u))
         /\ (conv[u] # TAKING_TEST /\ conv'[u] = TAKING_TEST)
            => (HasSession(u)' /\ AnswersCount(u)' = 0 /\ CurrentIndex(u)' = 0)]_vars

\* the step is the handling of /cancel sent by u
CancelStep(u) == CancelCommand(u) \/ LegacyCancel(u)

\* C11: /cancel on a session that is already completed (or cancelled) changes
\* no saved result and raises no error, and it leaves the conversation ended,
\* so that a second /cancel finds no session to act on.
C11_CancelIdempotent ==
    [][\A u \in Users :
         /\ (conv[u] \in {SHOWING_RESULT, END} /\ CancelStep(u))
            => /\ save_log' = save_log
               /\ ~IsException(outcome'[u])
               /\ conv'[u] = END
         /\ outcome'[u] = "cancelled" => conv'[u] = END]_vars

\* the session of u has an answer for every question of its test
Completed(u) ==
    IF revision = "updated"
    THEN /\ Get(user_data[u], "selected_test", None) \in TestKeys
         /\ Has(user_data[u], "current_question")
         /\ user_data[u]["current_question"] >= NumQuestions(SelectedTest(u))
    ELSE /\ conv[u] = SHOWING_RESULT
         /\ Get(user_data[u], "test_type", None) \in LegacyTypes

\* C12: an answer sent to a session that is already completed changes nothing:
\* no answer is added, the index does not grow, no second result is computed.
C12_NoAnswerAfterCompletion ==
    [][\A u \in Users : \A data \in (DOMAIN AnswerNumOf) \cup (DOMAIN AnswerValueOf) :
          (Completed(u) /\ Pressed(u, data))
          => (user_data'[u] = user_data[u] /\ save_log' = save_log)]_vars

\* the step is a successful test selection (updated) or test start (legacy)
StartStep(u) ==
    IF revision = "updated"
    THEN conv[u] = CHOOSING_TEST /\ conv'[u] = CONFIRMING_TEST
    ELSE conv[u] = CONFIRMING_TEST /\ conv'[u] = TAKING_TEST

\* the answers held by the subscale buckets of u
RECURSIVE BucketEntries(_, _, _)
BucketEntries(buckets, names, i) ==
    IF i > Len(names) THEN 0
    ELSE Len(buckets[names[i]]) + BucketEntries(buckets, names, i + 1)

CompletionStep(u) == conv[u] = TAKING_TEST /\ conv'[u] = SHOWING_RESULT

\* C14: each completed session produces exactly one persisted result: the
\* completing step hands one row to the store, the store keeps it unless it
\* reported a failure, and no step hands over two.
C14_ExactlyOneSave ==
    [][/\ Len(save_log') <= Len(save_log) + 1
       /\ \A u \in Users :
            CompletionStep(u)
            => /\ Len(save_log') = Len(save_log) + 1
               /\ save_log'[Len(save_log')].returned # None
                  => Len(test_results') = Len(test_results) + 1]_vars

\* the step hands a row of u to the store and the store fails to save it
SaveFailed(u) ==
    /\ Len(save_log') = Len(save_log) + 1
    /\ save_log'[Len(save_log')].user_id = u
    /\ save_log'[Len(save_log')].returned = None

\* C15: when the store fails to save a completed result the completing step
\* fails too: it does not end normally with the result shown as if saved.
C15_SaveFailurePropagates ==
    [][\A u \in Users :
         SaveFailed(u) => (outcome'[u] # "ok" /\ conv'[u] # SHOWING_RESULT)]_vars

\* the step is the selection by u of the button data
Selected(u, data) ==
    IF revision = "updated"
    THEN /\ data \in DOMAIN TestKeyOf
         /\ Apply(u, select_test(user_data[u], conv[u], data), "current")
    ELSE /\ data \in DOMAIN TestTypeOf
         /\ Apply(u, test_callback(user_data[u], conv[u], data), "current")

\* the button names a test that is not in the catalog
NotInCatalog(data) ==
    IF revision = "updated"
    THEN data \in DOMAIN TestKeyOf /\ TestKeyOf[data] \notin TestKeys
    ELSE data \in DOMAIN TestTypeOf /\ TestTypeOf[data] \notin LegacyTypes \cup {"cancel"}

\* C16: selecting a test that is not in the catalog is answered with an error
\* and changes nothing of the user's session state.
C16_UnknownTestChangesNothing ==
    [][\A u \in Users : \A data \in (DOMAIN TestKeyOf) \cup (DOMAIN TestTypeOf) :
          (conv[u] \in {CHOOSING_TEST, SHOWING_RESULT} /\ NotInCatalog(data) /\ Selected(u, data))
          => (user_data'[u] = user_data[u] /\ outcome'[u] = "error_message")]_vars

\* the step of u ends in the updated show_test_question: "test_start", or an
\* answer that was stored and advanced the index
QuestionStep(u) ==
    \/ ConfirmTest(u) /\ outcome'[u] # "cancelled"
    \/ /\ ProcessTestAnswer(u)
       /\ Has(user_data[u], "current_question")
       /\ Has(user_data'[u], "current_question")
       /\ user_data'[u]["current_question"] = user_data[u]["current_question"] + 1

\* the step of u ends in the legacy show_test_question: "confirm_yes" for a
\* known test, or an answer that advanced the index
LegacyQuestionStep(u) ==
    \/ StartTest(u) /\ conv'[u] = TAKING_TEST /\ ~IsException(outcome'[u])
    \/ /\ LegacyProcessTestAnswer(u)
       /\ conv'[u] = TAKING_TEST
       /\ user_data'[u]["current_question"] # user_data[u]["current_question"]

RowsOf(log, u) == SelectSeq(log, LAMBDA r : r.user_id = u)

\* the step leaves everything of b as it was
Untouched(b) ==
    /\ conv'[b] = conv[b]
    /\ user_data'[b] = user_data[b]
    /\ keyboard'[b] = keyboard[b]
    /\ RowsOf(save_log', b) = RowsOf(save_log, b)

\* the result b's session ended with is the one computed from b's own
\* selected test and answers, and it is the one saved for b
OwnResult(b) ==
    (conv[b] = SHOWING_RESULT /\ outcome[b] = "ok") =>
        LET rows == RowsOf(save_log, b)
            ud == user_data[b]
            test_data == ALL_TESTS[ud["selected_test"]]
        IN  /\ rows # <<>>
            /\ rows[Len(rows)].test_type = test_data.name
            /\ rows[Len(rows)].answers = ud["answers"]
            /\ Len(ud["answers"]) = NumQuestions(test_data)
            /\ ud["current_question"] = NumQuestions(test_data)
            /\ test_data.calculation_type # "subscales" => rows[Len(rows)].score = ud["score"]

\* C19: the sessions of different users are independent: a step of one user
\* changes nothing of another user's state, selected test, index, answers or
\* saved results, and a user's result is the one of that user's own answers
\* however the other user's starts, answers and cancels are interleaved.
C19_UsersIndependent ==
    /\ [][\E a \in Users : \A b \in Users \ {a} : Untouched(b)]_vars
    /\ [](\A b \in Users : OwnResult(b))

\* user 2 has completed a test while user 1 is in the middle of another one
C19_Witness ==
    /\ conv[2] = SHOWING_RESULT
    /\ outcome[2] = "ok"
    /\ conv[1] = TAKING_TEST
    /\ Len(user_data[1]["answers"]) = 1
    /\ user_data[1]["selected_test"] # user_data[2]["selected_test"]
    /\ save_log # <<>>
    /\ save_log[Len(save_log)].user_id = 2

\* the totals a sum test can give: one option's score per question
RECURSIVE Attainable(_, _)
Attainable(questions, i) ==
    IF i > Len(questions) THEN {0}
    ELSE {OptionScore(questions[i], k) + s :
            k \in 0..(Len(questions[i].answers) - 1), s \in Attainable(questions, i + 1)}

\* the data-model invariant of an interpretation list: each range is proper,
\* each begins right after the one before it, and from the first range's
\* lower end to the last one's upper end they span every attainable score
Contiguous(table, scores) ==
    /\ table # <<>>
    /\ \A k \in 1..Len(table) : table[k].min_score <= table[k].max_score
    /\ \A k \in 1..(Len(table) - 1) : table[k + 1].min_score = table[k].max_score + 1
    /\ \A s \in scores : table[1].min_score <= s /\ s <= table[Len(table)].max_score

\* the entries the lookup's comparison accepts for the score
MatchingEntries(table, score) == {k \in 1..Len(table) : InRange(table[k], score)}

SumTests == {key \in TestKeys : ALL_TESTS[key].calculation_type = "sum"}

\* C20: for a sum test whose interpretation list satisfies the data-model
\* invariant, every attainable total is accepted by exactly one entry of the
\* list, so the lookup of a computed total finds one entry, never none or two.
C20_SumCoverage ==
    /\ \A key \in SumTests :
         LET t == ALL_TESTS[key] IN
         Contiguous(t.interpretations, Attainable(t.questions, 1))
         => \A s \in Attainable(t.questions, 1) :
              Cardinality(MatchingEntries(t.interpretations, s)) = 1
    /\ \A u \in Users :
         (/\ Computed(u)
          /\ user_data[u]["selected_test"] \in SumTests
          /\ Contiguous(SelectedTest(u).interpretations,
                        Attainable(SelectedTest(u).questions, 1)))
         => LET m == MatchingEntries(SelectedTest(u).interpretations, user_data[u]["score"])
            IN  /\ Cardinality(m) = 1
                /\ \A k \in m : user_data[u]["interpretation"] =
                                    SelectedTest(u).interpretations[k].text

\* a total at the upper end of the first range has been looked up
C20_Witness ==
    /\ Computed(1)
    /\ user_data[1]["selected_test"] = "sum2"
    /\ Contiguous(ALL_TESTS["sum2"].interpretations, Attainable(ALL_TESTS["sum2"].questions, 1))
    /\ user_data[1]["score"] = 1
    /\ user_data[1]["interpretation"] = "low"

\* every question carries the tag of exactly one declared subscale
Partitioned(test_data) ==
    \A i \in 1..Len(test_data.questions) :
        Cardinality({k \in 1..Len(test_data.subscales) :
                       test_data.subscales[k] = test_data.questions[i].subscale}) = 1

\* u is in a session of a subscale test, or has just completed one
SubscaleSession(u) ==
    /\ revision = "updated"
    /\ conv[u] \in {TAKING_TEST, SHOWING_RESULT}
    /\ Get(user_data[u], "selected_test", None) \in TestKeys
    /\ SelectedTest(u).calculation_type = "subscales"

HistoryOf(rows, u, test_type, limit) ==
    LET mine == SelectSeq(rows, LAMBDA r : r.user_id = u /\ (test_type = None \/ r.test_type = test_type))
        recent == [i \in 1..Len(mine) |-> mine[Len(mine) + 1 - i]]
    IN  SubSeq(recent, 1, IF Len(recent) < limit THEN Len(recent) ELSE limit)

\* C22: the history of a user holds only that user's results (those of the
\* named test when one is given), the most recent first, and at most limit
\* of them.
C22_History ==
    [][\A u \in Users, test_type \in {None} \cup {ALL_TESTS[k].name : k \in TestKeys},
         limit \in 1..MaxLimit :
          GetUserTestResults(u, test_type, limit)
          => /\ history'[u].exc = None
             /\ history'[u].rows = HistoryOf(test_results, u, test_type, limit)]_vars

\* the step emits the result of u's completed attempt: the result view of
\* show_test_result (updated), the result message of the completing answer
\* (legacy)
ResultEmitted(u) ==
    IF revision = "updated"
    THEN ShowTestResult(u) /\ outcome'[u] = "ok" /\ shown'[u] # <<>>
    ELSE CompletionStep(u) /\ outcome'[u] = "ok"

\* the keys that hold the attempt in progress
SessionKeys ==
    IF revision = "updated"
    THEN {"selected_test", "current_question", "answers", "subscale_answers"}
    ELSE {"test_type", "current_question", "test_answers"}

\* C23: once the result of a completed session has been emitted the session
\* is discarded: the selected test, the index and the answers are no longer
\* held for the user.
C23_DiscardedOnCompletion ==
    [][\A u \in Users :
          ResultEmitted(u) => \A k \in SessionKeys : ~Has(user_data'[u], k)]_vars

\* C24: the test flow never rests in a state it cannot leave by the buttons
\* it has shown: the state a handler returned is registered in the revision's
\* ConversationHandler, and every button just shown matches the handler
\* registered for that state, so a user who chooses, confirms and answers is
\* led on to the result.
C24_NeverStuck ==
    \A u \in Users :
        (conv[u] # END /\ ~IsException(outcome[u]))
        => /\ conv[u] \in DOMAIN Registered(revision)
           /\ \A data \in Rendered(u) :
                PatternOf(data) = Registered(revision)[conv[u]].pattern

\* the answers given to the questions tagged s, in test order
AnswersTagged(test_data, answers, s) ==
    LET idx == SelectSeq([i \in 1..Len(answers) |-> i],
                         LAMBDA i : test_data.questions[i].subscale = s)
    IN  [k \in 1..Len(idx) |-> answers[idx[k]]]

\* C25: in a session of a subscale test the bucket of each declared subscale
\* holds, in test order, the options chosen for the questions tagged with it:
\* its k-th entry is the answer to the k-th such question, and it never has
\* more entries than there are such questions.
C25_BucketsFollowQuestions ==
    \A u \in Users :
        SubscaleSession(u)
        => LET test_data == SelectedTest(u)
               answers == user_data[u]["answers"]
               buckets == user_data[u]["subscale_answers"]
           IN  /\ Len(answers) <= NumQuestions(test_data)
               /\ \A s \in SeqRange(test_data.subscales) :
                    /\ buckets[s] = AnswersTagged(test_data, answers, s)
                    /\ Len(buckets[s]) <= Len(SubscaleQuestions(test_data, s))

C25_Witness ==
    /\ SubscaleSession(1)
    /\ conv[1] = SHOWING_RESULT
    /\ user_data[1]["answers"] = <<1, 0, 1>>
    /\ user_data[1]["subscale_answers"]["A"] = <<1, 1>>
    /\ user_data[1]["subscale_answers"]["B"] = <<0>>

\* C26: in the legacy flow the result is computed from exactly one answer for
\* each question index 0..n-1, with current_question never beyond n-1, and
\* start_test always begins with no answers at index 0.
C26_LegacyAnswersComplete ==
    /\ [][\A u \in Users :
            /\ (revision = "legacy" /\ CompletionStep(u))
               => LET n == NumQuestions(TESTS_INFO[user_data'[u]["test_type"]])
                      row == save_log'[Len(save_log')]
                  IN  /\ DOMAIN user_data'[u]["test_answers"] = 0..(n - 1)
                      /\ Len(save_log') = Len(save_log) + 1
                      /\ DOMAIN row.answers = 0..(n - 1)
            /\ (revision = "legacy" /\ StartTest(u) /\ conv'[u] = TAKING_TEST)
               => /\ user_data'[u]["test_answers"] = EmptyDict
                  /\ user_data'[u]["current_question"] = 0]_vars
    /\ [](\A u \in Users :
            (revision = "legacy" /\ conv[u] \in {TAKING_TEST, SHOWING_RESULT})
            => /\ user_data[u]["current_question"]
                    <= NumQuestions(TESTS_INFO[user_data[u]["test_type"]]) - 1
               /\ DOMAIN user_data[u]["test_answers"] \subseteq
                    0..user_data[u]["current_question"])

C26_Witness ==
    /\ revision = "legacy"
    /\ conv[1] = SHOWING_RESULT
    /\ user_data[1]["test_type"] = "gad7"
    /\ DOMAIN user_data[1]["test_answers"] = {0, 1}
    /\ user_data[1]["current_question"] = 1

\* C27: two accepted calls of a rate-limited handler by one user are at least
\* limit_seconds apart; a call that comes sooner does not invoke the handler
\* and does not change the stored time; a user's first call is accepted; and
\* a call changes nothing of what is kept for other users.
C27_RateLimit ==
    /\ [](\A u \in Users : \A i, j \in 1..Len(invocations[u]) :
            i < j => invocations[u][j] - invocations[u][i] >= limit_seconds)
    /\ [][\A u \in Users :
            RateLimitedCall(u)
            => /\ (invocations[u] # <<>>
                   /\ now - invocations[u][Len(invocations[u])] < limit_seconds)
                  => (rate_reply'[u] = "wait" /\ last_used' = last_used
                      /\ invocations' = invocations)
               /\ invocations[u] = <<>>
                  => (rate_reply'[u] = "invoked" /\ invocations'[u] = <<now>>)
               /\ \A v \in Users \ {u} :
                    /\ invocations'[v] = invocations[v]
                    /\ Has(last_used', v) = Has(last_used, v)
                    /\ Has(last_used, v) => last_used'[v] = last_used[v]]_vars

\* a user was refused and, limit_seconds after the accepted call, accepted again
C27_Witness ==
    /\ Len(invocations[1]) = 2
    /\ invocations[1][2] - invocations[1][1] = limit_seconds
    /\ rate_reply[2] = "wait"
    /\ invocations[2] # <<>>

\* the dates on which a tip was delivered
TipDays == {delivered[i].day : i \in 1..Len(delivered)}

\* C28: get_daily_tip gives at most one tip per calendar date: a second
\* request on the same date is answered "already received" and leaves
\* last_tip_date and given_tips_indices unchanged, and the first request on a
\* new date delivers a tip.
C28_OneTipPerDate ==
    /\ [](\A i, j \in 1..Len(delivered) : i < j => delivered[i].day # delivered[j].day)
    /\ [][GetDailyTip
           => IF today \in TipDays
              THEN /\ tip_reply'.kind = "already"
                   /\ delivered' = delivered
                   /\ tips_data'["last_tip_date"] = tips_data["last_tip_date"]
                   /\ tips_data'["given_tips_indices"] = tips_data["given_tips_indices"]
              ELSE /\ tip_reply'.kind = "tip"
                   /\ Len(delivered') = Len(delivered) + 1
                   /\ delivered'[Len(delivered')].day = today]_vars

\* a tip on one day, a refusal and a tip on a later day
C28_Witness ==
    /\ Len(delivered) >= 2
    /\ tip_reply.kind = "already"
    /\ today \in TipDays

\* C29: given_tips_indices never holds a duplicate nor more entries than
\* there are tips: a tip is not delivered again before all of them were, and
\* once all were the record restarts with the tip delivered next.
C29_NoRepeatWithinCycle ==
    /\ [](Has(tips_data, "given_tips_indices")
           => LET g == tips_data["given_tips_indices"] IN
              /\ Len(g) <= NumTips
              /\ \A i, j \in 1..Len(g) : i < j => g[i] # g[j])
    /\ [](\A i, j \in 1..Len(delivered) :
            (i < j /\ (i - 1) \div NumTips = (j - 1) \div NumTips)
            => delivered[i].tip # delivered[j].tip)
    /\ [][(GetDailyTip /\ tip_reply'.kind = "tip" /\ delivered' # delivered)
           => LET g == TipsInitialised(tips_data)["given_tips_indices"]
                  t == delivered'[Len(delivered')].tip
              IN  IF Len(g) = NumTips
                  THEN tips_data'["given_tips_indices"] = <<t>>
                  ELSE /\ \A k \in 1..Len(g) : g[k] # t
                       /\ tips_data'["given_tips_indices"] = Append(g, t)]_vars

\* every tip was delivered once and the next cycle has begun
C29_Witness ==
    /\ Len(delivered) = NumTips + 1
    /\ Has(tips_data, "given_tips_indices")
    /\ Len(tips_data["given_tips_indices"]) = 1

\* C30: a text is delivered as the administrator's reply only when its
\* sender is ADMIN_USER_ID: for any other user admin_reply_command ends the
\* conversation and stores no question_id, and admin_process_reply_message
\* ends and sends nothing.
C30_OnlyAdminReplies ==
    /\ [](\A m \in sent : m.sender = ADMIN_USER_ID)
    /\ [](\A u \in Users \ {ADMIN_USER_ID} :
            admin_conv[u] = END /\ ~Has(admin_data[u], "question_id"))
    /\ [][\A u \in Users \ {ADMIN_USER_ID} :
            /\ (\E question_id \in 1..(MaxQuestions + 1) : AdminReplyCommand(u, question_id))
               => (admin_conv'[u] = END /\ admin_data' = admin_data /\ sent' = sent)
            /\ AdminProcessReplyMessage(u)
               => (reply_conv'[u] = "END" /\ sent' = sent)]_vars

\* the administrator's replies got through in both bots, and another user's
\* attempts in both bots have ended
C30_Witness ==
    /\ \E m \in sent : m.bot = "handlers"
    /\ \E m \in sent : m.bot = "makecloud"
    /\ \E u \in Users \ {ADMIN_USER_ID} :
        /\ Has(reply_data[u], "admin_reply_target_user_id")
        /\ reply_conv[u] = "END"
        /\ Len(anonymous_questions) > 0

\* the question the administrator u is replying to
ReplyingTo(u) == Get(admin_data[u], "question_id", 0)

\* C31: save_admin_reply persists the answer before it notifies the asker: a
\* notification is sent only after a successful save, to the user_id stored
\* with the question and to nobody else, and when the notification fails the
\* answer stays persisted and the conversation is ended.
C31_PersistThenNotify ==
    /\ [](\A i \in 1..Len(reply_events) :
            reply_events[i] \in {"notified", "notify_failed"}
            => (i > 1 /\ reply_events[i - 1] = "saved"))
    /\ [][\A u \in Users :
            SaveAdminReply(u)
            => LET q == ReplyingTo(u) IN
               /\ admin_conv'[u] = END
               /\ sent' # sent
                  => /\ anonymous_questions'[q].status = "answered"
                     /\ sent' \ sent \subseteq
                          {[bot |-> "handlers", sender |-> u,
                            chat_id |-> anonymous_questions[q].user_id]}
               /\ (reply_events' # <<>> /\ reply_events'[Len(reply_events')] = "notify_failed")
                  => (anonymous_questions'[q].status = "answered" /\ sent' = sent)
               /\ (reply_events' = <<"save_failed">>)
                  => (anonymous_questions' = anonymous_questions /\ sent' = sent)]_vars

\* one answer was saved and its notification failed, after another was
\* delivered to its asker
C31_Witness ==
    /\ reply_events = <<"saved", "notify_failed">>
    /\ admin_conv[ADMIN_USER_ID] = END
    /\ \E m \in sent : m.bot = "handlers" /\ m.chat_id # ADMIN_USER_ID
    /\ \A i \in 1..Len(anonymous_questions) : anonymous_questions[i].status = "answered"
    /\ Len(anonymous_questions) = 2

\* the user has a question that is not answered yet
HasUnanswered(u) ==
    \E i \in 1..Len(anonymous_questions) :
        anonymous_questions[i].user_id = u /\ anonymous_questions[i].status = "new"

\* C33: /ask takes a user to the question-writing state exactly when no
\* question of theirs is still unanswered: with one unanswered the
\* conversation ends and nothing is stored, and after the answer they can ask
\* again.
C33_AskWhenAnswered ==
    [][\A u \in Users :
        AskQuestionCommand(u)
        => /\ anonymous_questions' = anonymous_questions
           /\ ask_reply'.exc = None
           /\ ask_conv'[u] = IF HasUnanswered(u) THEN END ELSE ASKING_QUESTION]_vars

\* C32: after admin_process_reply_message, sent or not, and after
\* admin_cancel_reply the administrator's data holds no
\* admin_reply_target_user_id, and a reply goes to one user at most, the one
\* whose reply button the administrator pressed last, never to a target left
\* from an earlier reply.
C32_ReplyToLastPressed ==
    /\ [](reply_conv[ADMIN_USER_ID] = "END"
           => ~Has(reply_data[ADMIN_USER_ID], "admin_reply_target_user_id"))
    /\ [][AdminProcessReplyMessage(ADMIN_USER_ID)
           => sent' \ sent \subseteq
                {[bot |-> "makecloud", sender |-> ADMIN_USER_ID,
                  chat_id |-> last_pressed[ADMIN_USER_ID]]}]_vars

\* what an operation reports when a step of it fails
FailureValue(op) == IF op = "get_user_settings" THEN "None" ELSE "False"

\* C34: a data operation of Database whose query fails returns its
\* documented failure value and raises nothing to the handler; only connect
\* and init_db re-raise.
C34_FailuresReported ==
    /\ db_value.op \notin {None, "init_db"}
       => /\ db_value.value # "raised"
          /\ db_value.failed => db_value.value = FailureValue(db_value.op)
    /\ \A u \in Users : history[u].exc \in {"unasked", None}

\* C35: when an operation of Database has returned, having succeeded or
\* failed, the connection it opened is closed: no connection stays open and
\* no query runs on a connection an earlier operation closed.
C35_ConnectionsClosed ==
    /\ connection # "open"
    /\ opened = 0
    /\ ~stale_query

\* an operation failed after an earlier one had registered a user
C35_Witness ==
    /\ connection = "closed"
    /\ db_value.failed
    /\ db_value.op = "update_user_activity"
    /\ db_value.value = "False"
    /\ users_table # EmptyDict

\* C36: register_user is idempotent on the users: however often it is called
\* for a user_id, there is then one users row for it, with the names of the
\* last call, and one user_settings row, and the rows of other users are as
\* they were.
C36_RegisterIdempotent ==
    [][\A u \in Users, username \in Usernames :
        (RegisterUser(u, username) /\ db_value'.value = "True")
        => /\ Has(users_table', u) /\ users_table'[u] = username
           /\ u \in user_settings'
           /\ \A v \in Users \ {u} :
                /\ Has(users_table', v) = Has(users_table, v)
                /\ Has(users_table, v) => users_table'[v] = users_table[v]
                /\ (v \in user_settings') = (v \in user_settings)]_vars

====
